---- MODULE Spec2Model ----
(***************************************************************************)
(* StorageManager (src/storage-manager.js): a key -> JSON value store on   *)
(* IndexedDB with a localStorage fallback, its lazy initialisation, the    *)
(* localStorage -> IndexedDB migration and the public operations.          *)
(*                                                                         *)
(* JavaScript runs the code of one task to its next await without          *)
(* interleaving, so one action is one such run: the code between two       *)
(* awaits, or one event delivered by the environment (an IndexedDB request *)
(* succeeding or failing, a transaction committing or aborting).           *)
(***************************************************************************)
EXTENDS Integers, Sequences, FiniteSets, TLC

\* ------------------------------------------------------------------ bounds
NumCallers == 2          \* concurrent callers of the public operations
MaxCalls   == 2          \* public operations issued in one session; a
                         \* session of a single caller has one more

\* --------------------------------------------------------------- constants
LegacyKey == "allEquipmentCollections"
OtherKey  == "settings"
Keys      == {LegacyKey, OtherKey}

\* ------------------------------------------------------------- JSON values
JNull      == [t |-> "null"]
JFalse     == [t |-> "bool", b |-> FALSE]
JZero      == [t |-> "num", n |-> 0]
JEmptyStr  == [t |-> "str", s |-> ""]
JObj(ns)   == [t |-> "obj", names |-> ns]    \* { name: [] , ... }
JSONValues == {JNull, JFalse, JZero, JEmptyStr, JObj(<<>>), JObj(<<"A">>)}

Undefined  == [t |-> "undefined"]
Error(nm)  == [t |-> "error", name |-> nm]
NoItem     == [t |-> "none"]                 \* no entry under a key

\* JavaScript truthiness of a value
Truthy(v) ==
  CASE v.t = "null"      -> FALSE
    [] v.t = "undefined" -> FALSE
    [] v.t = "bool"      -> v.b
    [] v.t = "num"       -> v.n # 0
    [] v.t = "str"       -> v.s # ""
    [] OTHER             -> TRUE

DigitText(n) == CASE n = 0 -> "0" [] n = 1 -> "1" [] OTHER -> "2"

RECURSIVE MembersText(_)
MembersText(ns) ==
  IF ns = <<>> THEN ""
  ELSE "\"" \o Head(ns) \o "\":[]"
       \o (IF Tail(ns) = <<>> THEN "" ELSE "," \o MembersText(Tail(ns)))

\* JSON.stringify on a JSON value
JSONStringify(v) ==
  CASE v.t = "null" -> "null"
    [] v.t = "bool" -> (IF v.b THEN "true" ELSE "false")
    [] v.t = "num"  -> DigitText(v.n)
    [] v.t = "str"  -> "\"" \o v.s \o "\""
    [] v.t = "obj"  -> "{" \o MembersText(v.names) \o "}"

\* JSON.parse: the value a text denotes, or a SyntaxError
JSONTexts == [v \in JSONValues |-> JSONStringify(v)]
JSONParses(text) == \E v \in JSONValues : JSONTexts[v] = text
JSONParse(text)  ==
  IF JSONParses(text)
  THEN CHOOSE v \in JSONValues : JSONTexts[v] = text
  ELSE Error("SyntaxError")

\* the values the application stores in a session
PutValues  == {JNull, JZero, JObj(<<"A">>)}
\* texts localStorage may hold under the legacy key before the session: the
\* empty text, a text that is not JSON, a stored mapping
Garbage    == "{oops"
RawTexts   == {"", Garbage, JSONStringify(JObj(<<"A">>))}

\* -------------------------------------------------------------------- state
storeName == "collections"
Migration == 0                       \* the setItem call made by the migration
Callers   == 1..NumCallers           \* the application's calls
Tasks     == {Migration} \cup Callers

VARIABLES
  env,                  \* window.indexedDB: "missing" or "available"
  openRequest,          \* the request of indexedDB.open: "none", "pending",
                        \* "success", "error"
  objectStoreNames,     \* object stores of the database ColetasDB
  idb,                  \* the object store: key -> {key, value, timestamp}
  txq,                  \* IndexedDB transactions in creation order
  ls,                   \* localStorage: key -> text
  db,                   \* this.db
  isIndexedDBAvailable, \* this.isIndexedDBAvailable
  initPromise,          \* this.initPromise: "pending", "resolved", "rejected"
  initPc,               \* where init() is: "awaitOpen", "awaitMigrate", "done"
  openAttempts,         \* calls of indexedDB.open
  initRuns,             \* calls of init()
  task,                 \* per task: the public call it is in and its outcome
  calls,                \* public operations issued so far (the clock)
  acc,                  \* the most recent access to a backend
  \* ColetasApp (src/unnamed/part_000)
  allCollections,        \* this.allCollections: name -> array of items
  currentCollectionName, \* this.currentCollectionName ("" for null)
  currentCollectionData, \* this.currentCollectionData
  shared,                \* currentCollectionData is the very array held in
                         \* allCollections[currentCollectionName]
  editingIndex,          \* this.editingIndex
  visibleView,           \* the view that is not hidden
  nameCollectionModal,   \* style.display of the name dialog
  confirmModal,          \* style.display of the confirm dialog
  collectionsList,       \* the names rendered in the list of collections
  nameListeners,         \* handleConfirm/handleCancel pairs registered on the
                         \* buttons of the name dialog
  confirmListeners,      \* the same for the confirm dialog, with the action
                         \* each one resolves
  carried,               \* the actions carried out by the latest click
  pendingSaves,          \* saveAllCollections calls not yet returned
  persisted,             \* what the store holds under 'allEquipmentCollections'
  storageReady,          \* the storage manager's init promise has resolved
  load,                  \* loadAllCollections: where it is and what it got
  \* the service workers (src/sw.js, src/unnamed/part_001)
  worker,                \* the script that runs: "sw.js" or "part_001"
  workerState,           \* the state of the worker: "parsed", "installing",
                         \* "installed", "activating", "activated", "redundant"
  caches,                \* CacheStorage: cache name -> (url -> response)
  activation,            \* the activate handler: the names caches.keys() gave,
                         \* the deletes not yet done, the waitUntil promise
  fetchEvents            \* the fetch events dispatched to the worker

storageVars == <<env, openRequest, objectStoreNames, idb, txq, ls, db,
                 isIndexedDBAvailable, initPromise, initPc, openAttempts,
                 initRuns, task, calls, acc>>
appVars == <<allCollections, currentCollectionName, currentCollectionData,
             shared, editingIndex, visibleView, nameCollectionModal,
             confirmModal, collectionsList, nameListeners, confirmListeners,
             carried, pendingSaves, persisted, storageReady, load>>
swVars == <<worker, workerState, caches, activation, fetchEvents>>
vars == <<storageVars, appVars, swVars>>

NoStore  == [k \in {} |-> NoItem]
Entry(k, v, ts) == [t |-> "record", key |-> k, value |-> v, timestamp |-> ts]
PriorValue == JObj(<<>>)
\* the object store a previous session may have left
PriorStores == {NoStore, [k \in {LegacyKey} |-> Entry(k, PriorValue, 0)]}

\* History kept with a task, for stating the properties:
\*   via    the backend the call was dispatched to
\*   wrote  the caller's last write that no later write has touched, with
\*          what the caller's write before it had left under the key (prev)
\*   expect what `wrote` says of the key of a getItem, when it was
\*          dispatched; for exportData, `wrote` itself
\*   before what `wrote.prev` says of the key of a getItem
\*   saw    whether the read of a getItem found an entry
Unknown == [t |-> "unknown"]
NoWrite == [kind |-> "none", key |-> "", value |-> NoItem, prev |-> Unknown]
IdleTask == [pc |-> "idle", op |-> "none", key |-> "", value |-> Undefined,
             rest |-> <<>>, status |-> "none", result |-> Undefined,
             via |-> "none", wrote |-> NoWrite, expect |-> Unknown,
             before |-> Unknown, saw |-> "n/a"]
NoAccess == [by |-> -1, backend |-> "none", kind |-> "none", ready |-> FALSE]
Access(t, b, k) == [by |-> t, backend |-> b, kind |-> k,
                    ready |-> initPromise = "resolved"]

\* Date.now(): a clock that never runs backwards
Now == calls

\* ------------------------------------------------------------ localStorage
\* localStorage.getItem: the text under key, or null
Storage_getItem(l, key) ==
  IF key \in DOMAIN l THEN [t |-> "str", s |-> l[key]] ELSE JNull
Storage_setItem(l, key, text) ==
  [k \in DOMAIN l \cup {key} |-> IF k = key THEN text ELSE l[k]]
Storage_removeItem(l, key) == [k \in DOMAIN l \ {key} |-> l[k]]
Storage_clear(l) == [k \in {} |-> ""]

\* ---------------------------------------------------------------- IndexedDB
\* store.put / store.get / store.delete / store.clear / store.getAll
IDB_put(s, data)   == [k \in DOMAIN s \cup {data.key} |->
                         IF k = data.key THEN data ELSE s[k]]
IDB_get(s, key)    == IF key \in DOMAIN s THEN s[key] ELSE Undefined
IDB_delete(s, key) == [k \in DOMAIN s \ {key} |-> s[k]]
IDB_clear(s)       == NoStore
IDB_getAll(s)      == s

Request(t, md, o, k, d) ==
  [task |-> t, mode |-> md, op |-> o, key |-> k, data |-> d,
   phase |-> "queued", undo |-> NoStore]

\* -------------------------------------------------------------- application
\* The state of ColetasApp.  Texts of the form are sequences of characters,
\* so that trim() and the test for digits are computed.
EmptyMapping == [n \in {} |-> <<>>]
Absent       == [stored |-> FALSE, value |-> EmptyMapping]
Stored(m)    == [stored |-> TRUE, value |-> m]
NoLoad       == [pc |-> "awaitGet", status |-> "none", result |-> Absent]

\* lines 231-245 and 877-880: new ColetasApp() and app.init() up to the await
\* of getItem in loadAllCollections
ColetasApp_constructor ==
  /\ allCollections = EmptyMapping
  /\ currentCollectionName = ""
  /\ currentCollectionData = <<>>
  /\ shared = FALSE
  /\ editingIndex = -1
  /\ visibleView = "mainScreen"
  /\ nameCollectionModal = "none"
  /\ confirmModal = "none"
  /\ collectionsList = {}
  /\ nameListeners = 0
  /\ confirmListeners = <<>>
  /\ carried = <<>>
  /\ pendingSaves = <<>>
  /\ storageReady = FALSE
  /\ load = NoLoad

\* no service worker has been registered
NoCaches == [n \in {} |-> <<>>]
NoActivation ==
  [cacheNames |-> {}, pending |-> {}, failed |-> FALSE, promise |-> "none"]
NoWorker ==
  /\ worker = "sw.js"
  /\ workerState = "parsed"
  /\ caches = NoCaches
  /\ activation = NoActivation
  /\ fetchEvents = <<>>

\* -------------------------------------------------------------- constructor
\* lines 8-15, with init() run to its first await: it has returned when
\* window.indexedDB is missing and waits for indexedDB.open otherwise
Init ==
  /\ env \in {"missing", "available"}
  /\ openRequest = (IF env = "missing" THEN "none" ELSE "pending")
  /\ idb \in (IF env = "missing" THEN {NoStore} ELSE PriorStores)
  /\ objectStoreNames = (IF idb = NoStore THEN {} ELSE {storeName})
  /\ txq = <<>>
  /\ \/ ls = Storage_clear(<<>>)
     \/ \E text \in RawTexts :
          ls = Storage_setItem(Storage_clear(<<>>), LegacyKey, text)
  /\ db = "null"
  /\ isIndexedDBAvailable = FALSE
  /\ initRuns = 1
  /\ openAttempts = (IF env = "missing" THEN 0 ELSE 1)
  /\ initPc = (IF env = "missing" THEN "done" ELSE "awaitOpen")
  /\ initPromise = (IF env = "missing" THEN "resolved" ELSE "pending")
  /\ task = [t \in Tasks |-> IdleTask]
  /\ calls = 0
  /\ acc = NoAccess
  /\ ColetasApp_constructor
  /\ persisted = Absent
  /\ NoWorker

\* ------------------------------------------------------- init and migration
\* (variant: the migration drops the legacy copy once it has read it)
migrateFromLocalStorage_removing(l) ==
  LET collections == Storage_getItem(l, LegacyKey) IN
  [ls   |-> Storage_removeItem(l, LegacyKey),
   task |->
     IF Truthy(collections)
     THEN IF JSONParses(collections.s)
          THEN [IdleTask EXCEPT !.pc = "awaitInit", !.op = "setItem",
                                !.key = LegacyKey,
                                !.value = JSONParse(collections.s)]
          ELSE [IdleTask EXCEPT !.pc = "done", !.op = "migrate",
                                !.status = "caught",
                                !.result = Error("SyntaxError")]
     ELSE [IdleTask EXCEPT !.pc = "done", !.op = "migrate",
                           !.status = "skipped"]]

\* migrateFromLocalStorage up to its `await this.setItem(...)`: what it
\* leaves in localStorage and the task the migration is left in
migrateFromLocalStorage(l) ==
  LET collections == Storage_getItem(l, LegacyKey) IN
  [ls   |-> l,
   task |->
     IF Truthy(collections)
     THEN IF JSONParses(collections.s)
          THEN [IdleTask EXCEPT !.pc = "awaitInit", !.op = "setItem",
                                !.key = LegacyKey,
                                !.value = JSONParse(collections.s)]
          ELSE [IdleTask EXCEPT !.pc = "done", !.op = "migrate",
                                !.status = "caught",
                                !.result = Error("SyntaxError")]
     ELSE [IdleTask EXCEPT !.pc = "done", !.op = "migrate",
                           !.status = "skipped"]]

\* request.onsuccess of indexedDB.open (after onupgradeneeded on a new
\* database), then init() lines 26-30 up to the await of the migration
openDatabase_onsuccess ==
  /\ initPc = "awaitOpen"
  /\ env = "available"
  /\ openRequest' = "success"
  /\ objectStoreNames' = objectStoreNames \cup {storeName}
  /\ db' = "open"
  /\ isIndexedDBAvailable' = TRUE
  /\ ls' = migrateFromLocalStorage(ls).ls
  /\ task' = [task EXCEPT ![Migration] = migrateFromLocalStorage(ls).task]
  /\ acc' = Access(Migration, "localStorage", "read")
  /\ initPc' = "awaitMigrate"
  /\ UNCHANGED <<swVars, appVars, env, idb, txq, initPromise, openAttempts, initRuns, calls>>

\* (variant: init() without its try/catch)
openDatabase_onerror_uncaught ==
  /\ initPc = "awaitOpen"
  /\ env = "available"
  /\ openRequest' = "error"
  /\ initPc' = "done"
  /\ initPromise' = "rejected"
  /\ UNCHANGED <<swVars, appVars, env, objectStoreNames, idb, txq, ls, db, isIndexedDBAvailable,
                 openAttempts, initRuns, task, calls, acc>>

\* request.onerror of indexedDB.open, or indexedDB.open throwing inside the
\* promise executor: the await in init() throws and lines 33-36 catch it
openDatabase_onerror ==
  /\ initPc = "awaitOpen"
  /\ env = "available"
  /\ openRequest' = "error"
  /\ initPc' = "done"
  /\ initPromise' = "resolved"
  /\ UNCHANGED <<swVars, appVars, env, objectStoreNames, idb, txq, ls, db, isIndexedDBAvailable,
                 openAttempts, initRuns, task, calls, acc>>

\* (variant: migrateFromLocalStorage without its try/catch, the error of the
\* migration reaching the catch of init())
init_return_demoting ==
  /\ initPc = "awaitMigrate"
  /\ task[Migration].pc = "done"
  /\ initPc' = "done"
  /\ initPromise' = "resolved"
  /\ isIndexedDBAvailable' = (task[Migration].status # "caught")
  /\ UNCHANGED <<swVars, appVars, env, openRequest, objectStoreNames, idb, txq, ls, db,
                 openAttempts, initRuns, task, calls, acc>>

\* init() lines 30-32: the migration has returned
init_return ==
  /\ initPc = "awaitMigrate"
  /\ task[Migration].pc = "done"
  /\ initPc' = "done"
  /\ initPromise' = "resolved"
  /\ UNCHANGED <<swVars, appVars, env, openRequest, objectStoreNames, idb, txq, ls, db,
                 isIndexedDBAvailable, openAttempts, initRuns, task, calls,
                 acc>>

\* --------------------------------------------------------- public operations
Pair(k, v) == [key |-> k, value |-> v]
\* the mappings importData is called with
ImportMappings ==
  {<<>>, <<Pair(LegacyKey, JObj(<<"A">>)), Pair(OtherKey, JZero)>>}

\* the calls of a session: MaxCalls of them, one more when a single caller
\* issues them all
MayCall(t) ==
  \/ calls < MaxCalls
  \/ calls < MaxCalls + 1 /\ \A u \in Callers \ {t} : task[u].pc = "idle"

\* (variant: every public method runs init() again instead of awaiting the
\* stored promise)
Call_reinit(t, o, k, v, d) ==
  /\ task[t].pc \in {"idle", "done"}
  /\ MayCall(t)
  /\ task' = [task EXCEPT ![t] =
                [IdleTask EXCEPT !.pc = "awaitInit", !.op = o, !.key = k,
                                 !.value = v, !.rest = d,
                                 !.wrote = task[t].wrote]]
  /\ calls' = calls + 1
  /\ initRuns' = initRuns + 1
  /\ openAttempts' = openAttempts + (IF env = "available" THEN 1 ELSE 0)
  /\ UNCHANGED <<swVars, appVars, env, openRequest, objectStoreNames, idb, txq, ls, db,
                 isIndexedDBAvailable, initPromise, initPc, acc>>

\* entry of an async public method, up to `await this.initPromise`
Call(t, o, k, v, d) ==
  /\ task[t].pc \in {"idle", "done"}
  /\ MayCall(t)
  /\ task' = [task EXCEPT ![t] =
                [IdleTask EXCEPT !.pc = "awaitInit", !.op = o, !.key = k,
                                 !.value = v, !.rest = d,
                                 !.wrote = task[t].wrote]]
  /\ calls' = calls + 1
  /\ UNCHANGED <<swVars, appVars, env, openRequest, objectStoreNames, idb, txq, ls, db,
                 isIndexedDBAvailable, initPromise, initPc, openAttempts,
                 initRuns, acc>>

setItem(t, key, value) == Call(t, "setItem", key, value, <<>>)
getItem(t, key)        == Call(t, "getItem", key, Undefined, <<>>)
removeItem(t, key)     == Call(t, "removeItem", key, Undefined, <<>>)
clear(t)               == Call(t, "clear", "", Undefined, <<>>)
exportData(t)          == Call(t, "exportData", "", Undefined, <<>>)
importData(t, data)    == Call(t, "importData", "", Undefined, data)

\* enhancedStorage, lines 269-288: the wrapper with the interface of
\* localStorage.  setItem parses a string argument and hands the value to
\* storageManager.setItem; a text that does not parse rejects the wrapper's
\* promise before the manager is called
Str(text) == [t |-> "str", s |-> text]
\* the texts the wrapper's setItem is given: a JSON text, a text that is not
WrapperTexts == {JSONStringify(JZero), Garbage}
enhancedStorage_setItem(t, key, value) ==
  LET parsedValue == IF value.t = "str" THEN JSONParse(value.s) ELSE value IN
  IF parsedValue = Error("SyntaxError")
  THEN /\ task[t].pc \in {"idle", "done"}
       /\ MayCall(t)
       /\ task' = [task EXCEPT ![t] =
                     [IdleTask EXCEPT
                        !.pc = "done", !.op = "enhancedStorage.setItem",
                        !.key = key, !.status = "rejected",
                        !.result = parsedValue, !.wrote = task[t].wrote]]
       /\ calls' = calls + 1
       /\ UNCHANGED <<swVars, appVars, env, openRequest, objectStoreNames, idb, txq, ls, db,
                      isIndexedDBAvailable, initPromise, initPc, openAttempts,
                      initRuns, acc>>
  ELSE setItem(t, key, parsedValue)

\* line 277: what the wrapper's getItem makes of the manager's value
enhancedStorage_getItem_value(value) ==
  IF Truthy(value) THEN Str(JSONStringify(value)) ELSE JNull

\* enhancedStorage.getItem is storageManager.getItem followed by line 277:
\* the step below is the wrapper's continuation of a getItem(t, key)
enhancedStorage_getItem_return(t) ==
  /\ task[t].op = "getItem"
  /\ task[t].pc = "done"
  /\ task' = [task EXCEPT ![t] =
                [@ EXCEPT !.op = "enhancedStorage.getItem",
                          !.result = IF task[t].status = "resolved"
                                     THEN enhancedStorage_getItem_value(@)
                                     ELSE @]]
  /\ UNCHANGED <<swVars, appVars, env, openRequest, objectStoreNames, idb, txq, ls, db,
                 isIndexedDBAvailable, initPromise, initPc, openAttempts,
                 initRuns, calls, acc>>

\* getStorageInfo, lines 204-224: it does not await initPromise; info.type is
\* taken from isIndexedDBAvailable as it is at the call, then the method
\* awaits navigator.storage.estimate() when the browser has it
Info(type, quota, usage) ==
  [t |-> "info", type |-> type, quota |-> quota, usage |-> usage,
   available |-> quota - usage]
\* what navigator.storage.estimate() gives: nothing (missing, or rejected and
\* caught), or a quota and a usage
Estimates == {Undefined, [quota |-> 2, usage |-> 1]}
getStorageInfo(t) ==
  /\ task[t].pc \in {"idle", "done"}
  /\ MayCall(t)
  /\ task' = [task EXCEPT ![t] =
                [IdleTask EXCEPT
                   !.pc = "awaitEstimate", !.op = "getStorageInfo",
                   !.result = Info(IF isIndexedDBAvailable THEN "IndexedDB"
                                   ELSE "localStorage", 0, 0),
                   !.wrote = task[t].wrote]]
  /\ calls' = calls + 1
  /\ UNCHANGED <<swVars, appVars, env, openRequest, objectStoreNames, idb, txq, ls, db,
                 isIndexedDBAvailable, initPromise, initPc, openAttempts,
                 initRuns, acc>>

\* lines 213-223: the estimate has settled (or there was none) and
\* getStorageInfo returns info
getStorageInfo_return(t) ==
  /\ task[t].pc = "awaitEstimate"
  /\ \E estimate \in Estimates :
       task' = [task EXCEPT ![t] =
                  [@ EXCEPT !.pc = "done", !.status = "resolved",
                            !.result =
                              IF estimate = Undefined THEN @
                              ELSE Info(@.type, estimate.quota, estimate.usage)]]
  /\ UNCHANGED <<swVars, appVars, env, openRequest, objectStoreNames, idb, txq, ls, db,
                 isIndexedDBAvailable, initPromise, initPc, openAttempts,
                 initRuns, calls, acc>>

\* (variant: the public method does not await the init promise)
AwaitInitPromise_skipped == TRUE

\* `await this.initPromise` lets the caller continue once init() has settled
AwaitInitPromise == initPromise # "pending"

\* (variant: a write that fails drops the entry that was under the key)
setItemLocalStorage_dropping(l, key, value, quotaOk) ==
  IF quotaOk
  THEN [ls |-> Storage_setItem(l, key, JSONStringify(value)),
        status |-> "resolved", result |-> Undefined]
  ELSE [ls |-> Storage_removeItem(l, key), status |-> "rejected",
        result |-> Error("QuotaExceededError")]

setItemLocalStorage(l, key, value, quotaOk) ==
  IF quotaOk
  THEN [ls |-> Storage_setItem(l, key, JSONStringify(value)),
        status |-> "resolved", result |-> Undefined]
  ELSE [ls |-> l, status |-> "rejected",
        result |-> Error("QuotaExceededError")]

getItemLocalStorage(l, key) ==
  LET item == Storage_getItem(l, key) IN
  IF Truthy(item)
  THEN IF JSONParses(item.s)
       THEN [ls |-> l, status |-> "resolved", result |-> JSONParse(item.s)]
       ELSE [ls |-> l, status |-> "rejected", result |-> Error("SyntaxError")]
  ELSE [ls |-> l, status |-> "resolved", result |-> JNull]

removeItemLocalStorage(l, key) ==
  [ls |-> Storage_removeItem(l, key), status |-> "resolved",
   result |-> Undefined]

\* (variant: clear removes the application's key only)
clearLocalStorage_legacyOnly(l) ==
  [ls |-> Storage_removeItem(l, LegacyKey), status |-> "resolved",
   result |-> Undefined]

clearLocalStorage(l) ==
  [ls |-> Storage_clear(l), status |-> "resolved", result |-> Undefined]

Mapping(m) == [t |-> "map", m |-> m]

\* (variant: the loop over localStorage stops one key short)
exportDataLocalStorage_short(l) ==
  LET ks == IF DOMAIN l = {} THEN {}
            ELSE DOMAIN l \ {CHOOSE k \in DOMAIN l : TRUE}
  IN IF \A k \in ks : JSONParses(l[k])
     THEN [ls |-> l, status |-> "resolved",
           result |-> Mapping([k \in ks |-> JSONParse(l[k])])]
     ELSE [ls |-> l, status |-> "rejected", result |-> Error("SyntaxError")]

\* exportData, lines 249-253
exportDataLocalStorage(l) ==
  IF \A k \in DOMAIN l : JSONParses(l[k])
  THEN [ls |-> l, status |-> "resolved",
        result |-> Mapping([k \in DOMAIN l |-> JSONParse(l[k])])]
  ELSE [ls |-> l, status |-> "rejected", result |-> Error("SyntaxError")]

\* the pair a call writes: its arguments, or the next entry of importData
CurKey(c)   == IF c.op = "importData" THEN Head(c.rest).key ELSE c.key
CurValue(c) == IF c.op = "importData" THEN Head(c.rest).value ELSE c.value
IsWrite(o)  == o \in {"setItem", "importData", "removeItem", "clear"}

\* the localStorage branch of the public methods, lines 77, 87, 97, 107, 249
LocalStorageOutcome(c, quotaOk) ==
  CASE c.op \in {"setItem", "importData"} ->
         setItemLocalStorage(ls, CurKey(c), CurValue(c), quotaOk)
    [] c.op = "getItem"    -> getItemLocalStorage(ls, c.key)
    [] c.op = "removeItem" -> removeItemLocalStorage(ls, c.key)
    [] c.op = "clear"      -> clearLocalStorage(ls)
    [] c.op = "exportData" -> exportDataLocalStorage(ls)

\* what the caller is left with when the write of one pair has succeeded:
\* importData goes on to its next setItem, every other call has resolved
AfterSuccess(c, res) ==
  IF c.op = "importData" /\ c.rest # <<>>
  THEN [c EXCEPT !.pc = "awaitInit"]
  ELSE [c EXCEPT !.pc = "done", !.status = "resolved", !.result = res]
AfterFailure(c, err) ==
  [c EXCEPT !.pc = "done", !.status = "rejected", !.result = err,
            !.wrote = IF IsWrite(c.op) THEN NoWrite ELSE @]

\* the pair being written is taken off importData's entries
Taken(c) ==
  IF c.op = "importData"
  THEN [c EXCEPT !.key = Head(c.rest).key, !.value = Head(c.rest).value,
                 !.rest = Tail(c.rest)]
  ELSE c

\* history: the write a call makes, the writes of others it touches, what a
\* getItem may expect
Covers(w, key) ==
  w.kind = "clear" \/ (w.kind \in {"put", "delete"} /\ w.key = key)
Expected(w, key) == IF Covers(w, key) THEN w.value ELSE Unknown
WriteOf(c) ==
  CASE c.op \in {"setItem", "importData"} ->
         [kind |-> "put", key |-> CurKey(c), value |-> CurValue(c),
          prev |-> Expected(c.wrote, CurKey(c))]
    [] c.op = "removeItem" ->
         [kind |-> "delete", key |-> c.key, value |-> NoItem,
          prev |-> Expected(c.wrote, c.key)]
    [] c.op = "clear" ->
         [kind |-> "clear", key |-> "", value |-> NoItem,
          prev |-> IF c.wrote.kind = "clear" THEN NoItem ELSE Unknown]
Overlaps(w, c) ==
  /\ w.kind # "none"
  /\ c.op = "clear" \/ w.kind = "clear" \/ w.key = CurKey(c)
Dispatched(t, backend) ==
  LET c == task[t] IN
  [u \in Tasks |->
     IF u = t
     THEN [Taken(c) EXCEPT
             !.via = backend,
             !.expect = CASE c.op = "getItem" -> Expected(c.wrote, c.key)
                          [] c.op = "exportData" -> c.wrote
                          [] OTHER -> Unknown,
             !.before = IF c.op = "getItem" /\ Covers(c.wrote, c.key)
                        THEN c.wrote.prev ELSE Unknown,
             !.wrote = IF IsWrite(c.op) THEN WriteOf(c) ELSE c.wrote]
     ELSE IF IsWrite(c.op) /\ Overlaps(task[u].wrote, c)
          THEN [task[u] EXCEPT !.wrote = NoWrite]
          ELSE task[u]]
Saw(s, key) == IF key \in DOMAIN s THEN "present" ELSE "absent"

\* (variant: on localStorage the legacy text is read for the migration by the
\* calls as well)
DispatchLocalStorage_migrating(t) ==
  \E quotaOk \in BOOLEAN :
    LET c == task[t]
        r == LocalStorageOutcome(c, quotaOk)
        d == [Dispatched(t, "localStorage") EXCEPT
                   ![t].saw = IF c.op = "getItem" THEN Saw(ls, c.key)
                              ELSE "n/a"]
    IN /\ ls' = r.ls
       /\ task' = [d EXCEPT ![t] = IF r.status = "resolved"
                                   THEN AfterSuccess(@, r.result)
                                   ELSE AfterFailure(@, r.result),
                            ![Migration] = migrateFromLocalStorage(ls).task]
       /\ acc' = Access(t, "localStorage",
                        IF IsWrite(c.op) THEN "write" ELSE "read")
       /\ UNCHANGED <<idb, txq>>

DispatchLocalStorage(t) ==
  \E quotaOk \in BOOLEAN :
    LET c == task[t]
        r == LocalStorageOutcome(c, quotaOk)
        d == [Dispatched(t, "localStorage") EXCEPT
                   ![t].saw = IF c.op = "getItem" THEN Saw(ls, c.key)
                              ELSE "n/a"]
    IN /\ ls' = r.ls
       /\ task' = [d EXCEPT ![t] = IF r.status = "resolved"
                                   THEN AfterSuccess(@, r.result)
                                   ELSE AfterFailure(@, r.result)]
       /\ acc' = Access(t, "localStorage",
                        IF IsWrite(c.op) THEN "write" ELSE "read")
       /\ UNCHANGED <<idb, txq>>

\* the request each *IndexedDB method (and exportData) creates in a
\* transaction of its own, lines 112-164 and 232-236
IndexedDBRequest(t, c) ==
  CASE c.op \in {"setItem", "importData"} ->
         Request(t, "readwrite", "put", CurKey(c),
                 Entry(CurKey(c), CurValue(c), Now))
    [] c.op = "getItem"    -> Request(t, "readonly", "get", c.key, Undefined)
    [] c.op = "removeItem" -> Request(t, "readwrite", "delete", c.key, Undefined)
    [] c.op = "clear"      -> Request(t, "readwrite", "clear", "", Undefined)
    [] c.op = "exportData" -> Request(t, "readonly", "getAll", "", Undefined)

\* (variant: clear() on IndexedDB empties localStorage as well)
DispatchIndexedDB_clearingBoth(t) ==
  /\ txq' = Append(txq, IndexedDBRequest(t, task[t]))
  /\ task' = [Dispatched(t, "indexedDB") EXCEPT ![t].pc = "awaitReq"]
  /\ acc' = Access(t, "indexedDB",
                   IF IsWrite(task[t].op) THEN "write" ELSE "read")
  /\ ls' = IF task[t].op = "clear" THEN Storage_clear(ls) ELSE ls
  /\ UNCHANGED idb

DispatchIndexedDB(t) ==
  /\ txq' = Append(txq, IndexedDBRequest(t, task[t]))
  /\ task' = [Dispatched(t, "indexedDB") EXCEPT ![t].pc = "awaitReq"]
  /\ acc' = Access(t, "indexedDB",
                   IF IsWrite(task[t].op) THEN "write" ELSE "read")
  /\ UNCHANGED <<idb, ls>>

\* a public method continues after `await this.initPromise` and calls the
\* method of the selected backend; importData of an empty mapping returns
Resume(t) ==
  /\ task[t].pc = "awaitInit"
  /\ AwaitInitPromise
  /\ IF initPromise = "rejected"
     THEN /\ task' = [task EXCEPT ![t] = AfterFailure(@, Error("OpenError"))]
          /\ UNCHANGED <<idb, txq, ls, acc>>
     ELSE IF task[t].op = "importData" /\ task[t].rest = <<>>
     THEN /\ task' = [task EXCEPT ![t] = AfterSuccess(@, Undefined)]
          /\ UNCHANGED <<idb, txq, ls, acc>>
     ELSE IF isIndexedDBAvailable
          THEN DispatchIndexedDB(t)
          ELSE DispatchLocalStorage(t)
  /\ UNCHANGED <<swVars, appVars, env, openRequest, objectStoreNames, db, isIndexedDBAvailable,
                 initPromise, initPc, openAttempts, initRuns, calls>>

\* ------------------------------------------------------- IndexedDB events
\* Transactions on the one object store run in the order they were created.
\* (variant: `resolve(result && result.value)`)
getItemIndexedDB_onsuccess_undefined(result) ==
  IF Truthy(result) THEN result.value ELSE Undefined

getItemIndexedDB_onsuccess(result) ==
  IF Truthy(result) THEN result.value ELSE JNull
\* (variant: the mapping is built from the whole entries, not their values)
exportData_onsuccess_entries(result) ==
  Mapping([k \in DOMAIN result |-> result[k]])

exportData_onsuccess(result) ==
  Mapping([k \in DOMAIN result |-> result[k].value])

RequestEffect(r, s) ==
  CASE r.op = "put"    -> IDB_put(s, r.data)
    [] r.op = "delete" -> IDB_delete(s, r.key)
    [] r.op = "clear"  -> IDB_clear(s)
    [] OTHER           -> s
RequestResult(r, s) ==
  CASE r.op = "get"    -> getItemIndexedDB_onsuccess(IDB_get(s, r.key))
    [] r.op = "getAll" -> exportData_onsuccess(IDB_getAll(s))
    [] OTHER           -> Undefined

\* (variant: the requests of the waiting transactions succeed in any order)
request_onsuccess_unordered ==
  /\ \E i \in 1..Len(txq) :
       /\ txq[i].phase = "queued"
       /\ LET r == txq[i] IN
          /\ idb' = RequestEffect(r, idb)
          /\ txq' = SubSeq(txq, 1, i - 1)
                    \o (IF r.op = "put"
                        THEN <<[r EXCEPT !.phase = "committing", !.undo = idb]>>
                        ELSE <<>>)
                    \o SubSeq(txq, i + 1, Len(txq))
          /\ task' = [task EXCEPT ![r.task] =
                        AfterSuccess(
                          [@ EXCEPT !.saw = IF r.op = "get" THEN Saw(idb, r.key)
                                            ELSE "n/a"],
                          RequestResult(r, idb))]
  /\ UNCHANGED <<swVars, appVars, env, openRequest, objectStoreNames, ls, db,
                 isIndexedDBAvailable, initPromise, initPc, openAttempts,
                 initRuns, calls, acc>>

\* the request of the oldest transaction succeeds: request.onsuccess.  The
\* transaction of a put has then still to commit.
request_onsuccess ==
  /\ txq # <<>>
  /\ Head(txq).phase = "queued"
  /\ LET r == Head(txq) IN
     /\ idb' = RequestEffect(r, idb)
     /\ txq' = IF r.op = "put"
               THEN <<[r EXCEPT !.phase = "committing", !.undo = idb]>>
                    \o Tail(txq)
               ELSE Tail(txq)
     /\ task' = [task EXCEPT ![r.task] =
                   AfterSuccess(
                     [@ EXCEPT !.saw = IF r.op = "get" THEN Saw(idb, r.key)
                                       ELSE "n/a"],
                     RequestResult(r, idb))]
  /\ UNCHANGED <<swVars, appVars, env, openRequest, objectStoreNames, ls, db,
                 isIndexedDBAvailable, initPromise, initPc, openAttempts,
                 initRuns, calls, acc>>

\* (variant: a failed request demotes the manager to localStorage and the
\* call is tried again there)
request_onerror_demoting ==
  /\ txq # <<>>
  /\ Head(txq).phase = "queued"
  /\ LET r == Head(txq) IN
     /\ txq' = Tail(txq)
     /\ task' = [task EXCEPT ![r.task] = [@ EXCEPT !.pc = "awaitInit"]]
  /\ isIndexedDBAvailable' = FALSE
  /\ UNCHANGED <<swVars, appVars, env, openRequest, objectStoreNames, idb, ls, db,
                 initPromise, initPc, openAttempts, initRuns, calls, acc>>

\* the request fails and its transaction aborts: request.onerror
request_onerror ==
  /\ txq # <<>>
  /\ Head(txq).phase = "queued"
  /\ LET r == Head(txq) IN
     /\ txq' = Tail(txq)
     /\ task' = [task EXCEPT ![r.task] = AfterFailure(@, Error("RequestError"))]
  /\ UNCHANGED <<swVars, appVars, env, openRequest, objectStoreNames, idb, ls, db,
                 isIndexedDBAvailable, initPromise, initPc, openAttempts,
                 initRuns, calls, acc>>

\* the transaction of a put commits
transaction_oncomplete ==
  /\ txq # <<>>
  /\ Head(txq).phase = "committing"
  /\ txq' = Tail(txq)
  /\ UNCHANGED <<swVars, appVars, env, openRequest, objectStoreNames, idb, ls, db,
                 isIndexedDBAvailable, initPromise, initPc, openAttempts,
                 initRuns, task, calls, acc>>

\* the transaction of a put fails to commit for lack of capacity and is rolled
\* back; the code registers no handler on the transaction
transaction_onabort ==
  /\ txq # <<>>
  /\ Head(txq).phase = "committing"
  /\ idb' = Head(txq).undo
  /\ txq' = Tail(txq)
  /\ UNCHANGED <<swVars, appVars, env, openRequest, objectStoreNames, ls, db,
                 isIndexedDBAvailable, initPromise, initPc, openAttempts,
                 initRuns, task, calls, acc>>

\* ------------------------------------------------------------ specification
Next ==
  \/ openDatabase_onsuccess
  \/ openDatabase_onerror
  \/ init_return
  \/ \E t \in Callers, k \in Keys, v \in PutValues : setItem(t, k, v)
  \/ \E t \in Callers, k \in Keys : getItem(t, k)
  \/ \E t \in Callers, k \in Keys : removeItem(t, k)
  \/ \E t \in Callers : clear(t)
  \/ \E t \in Callers : exportData(t)
  \/ \E t \in Callers, d \in ImportMappings : importData(t, d)
  \/ \E t \in Callers, k \in Keys, s \in WrapperTexts :
       enhancedStorage_setItem(t, k, Str(s))
  \/ \E t \in Callers : enhancedStorage_getItem_return(t)
  \/ \E t \in Callers : getStorageInfo(t)
  \/ \E t \in Callers : getStorageInfo_return(t)
  \/ \E t \in Tasks : Resume(t)
  \/ request_onsuccess
  \/ request_onerror
  \/ transaction_oncomplete
  \/ transaction_onabort

Spec == Init /\ [][Next]_vars

\* The event loop runs every continuation that is ready, and IndexedDB
\* finishes every request and transaction it was given.
FairSpec ==
  /\ Spec
  /\ WF_vars(openDatabase_onsuccess \/ openDatabase_onerror)
  /\ WF_vars(init_return)
  /\ \A t \in Tasks : WF_vars(Resume(t))
  /\ \A t \in Callers : WF_vars(getStorageInfo_return(t))
  /\ \A t \in Callers : WF_vars(enhancedStorage_getItem_return(t))
  /\ WF_vars(request_onsuccess \/ request_onerror)
  /\ WF_vars(transaction_oncomplete \/ transaction_onabort)

\* ------------------------------------------------------------- ColetasApp
\* Bounds of the application's sessions
MaxItems     == 1   \* items of a collection
MaxPending   == 1   \* saveAllCollections calls in flight when the user
                    \* starts another operation
MaxListeners == 2   \* listener pairs on the buttons of a dialog

\* names the user types in the name dialog: a name, a name that
\* Object.prototype has, a blank text; and the names of collections
Names      == {"a"}
NameInputs == Names \cup {"constructor", "", " "}
ObjectPrototypeNames == {"constructor", "toString"}

\* String.prototype.trim on a text, and /^\d*$/
RECURSIVE TrimStart(_)
TrimStart(s) == IF s # <<>> /\ Head(s) = " " THEN TrimStart(Tail(s)) ELSE s
RECURSIVE TrimEnd(_)
TrimEnd(s) ==
  IF s # <<>> /\ s[Len(s)] = " " THEN TrimEnd(SubSeq(s, 1, Len(s) - 1)) ELSE s
trim(s) == TrimEnd(TrimStart(s))
OnlyDigits(s) == \A i \in 1..Len(s) : s[i] \in {"0", "1"}
\* the name dialog's input is one of NameInputs
trimName(text) == IF text = " " THEN "" ELSE text

\* what the inputs of the form hold when it is submitted
FilledForm ==
  [type |-> <<"T">>, brand |-> <<" ", "B">>, model |-> <<>>,
   serialNumber |-> <<"S">>, patSiads |-> <<>>, patEbserh |-> <<>>,
   patFub |-> <<>>, building |-> <<"P">>, floor |-> <<"1">>,
   sector |-> <<"S", " ">>, user |-> <<>>, observation |-> <<>>]
OtherForm ==
  [FilledForm EXCEPT !.serialNumber = <<" ">>, !.patSiads = <<"1", "0">>,
                     !.patEbserh = <<"0">>]
Forms ==
  {FilledForm, OtherForm,
   [FilledForm EXCEPT !.type = <<" ">>],
   [FilledForm EXCEPT !.brand = <<>>],
   [FilledForm EXCEPT !.building = <<>>],
   [FilledForm EXCEPT !.floor = <<>>],
   [FilledForm EXCEPT !.sector = <<" ", " ">>],
   [FilledForm EXCEPT !.patSiads = <<"1", "a">>],
   [FilledForm EXCEPT !.patEbserh = <<"a">>],
   [OtherForm EXCEPT !.patSiads = <<"1", " ", "0">>],
   [FilledForm EXCEPT !.serialNumber = <<" ">>]}

\* lines 524-537: newItem
NewItem(form) ==
  [type |-> trim(form.type), brand |-> trim(form.brand),
   model |-> trim(form.model), serialNumber |-> trim(form.serialNumber),
   patSiads |-> trim(form.patSiads), patEbserh |-> trim(form.patEbserh),
   patFub |-> trim(form.patFub), building |-> trim(form.building),
   floor |-> trim(form.floor), sector |-> trim(form.sector),
   user |-> trim(form.user), observation |-> trim(form.observation)]

\* lines 539-574: the validations, in the order of the code; the message
\* shown, or "ok"
Validation(newItem) ==
  CASE newItem.type = <<>>     -> "TIPO"
    [] newItem.brand = <<>>    -> "MARCA"
    [] newItem.building = <<>> -> "PREDIO"
    [] newItem.floor = <<>>    -> "ANDAR"
    [] newItem.sector = <<>>   -> "SETOR/SALA"
    [] newItem.patSiads # <<>> /\ ~OnlyDigits(newItem.patSiads)   -> "PAT. SIADS"
    [] newItem.patEbserh # <<>> /\ ~OnlyDigits(newItem.patEbserh) -> "PAT. EBSERH"
    [] /\ newItem.serialNumber = <<>> /\ newItem.patSiads = <<>>
       /\ newItem.patEbserh = <<>> /\ newItem.patFub = <<>>       -> "INVENTARIO"
    [] OTHER -> "ok"

\* arrays: an index that was never assigned is a hole
Hole == [hole |-> TRUE]
RECURSIVE Holes(_)
Holes(n) == IF n <= 0 THEN <<>> ELSE <<Hole>> \o Holes(n - 1)
\* array[index] (0-based), undefined for a hole or past the end
At(array, index) ==
  IF index >= 0 /\ index < Len(array) THEN array[index + 1] ELSE Hole
\* array[index] = item
SetAt(array, index, item) ==
  IF index < Len(array)
  THEN [array EXCEPT ![index + 1] = item]
  ELSE array \o Holes(index - Len(array)) \o <<item>>
\* array.splice(index, 1)
Splice(array, index) ==
  IF index >= 0 /\ index < Len(array)
  THEN SubSeq(array, 1, index) \o SubSeq(array, index + 2, Len(array))
  ELSE array

\* this.allCollections[name] as a condition: own keys, then Object.prototype
HasCollection(m, name) ==
  name \in DOMAIN m \/ name \in ObjectPrototypeNames
\* mapping[name] = array, delete mapping[name]
SetCollection(m, name, array) ==
  [n \in DOMAIN m \cup {name} |-> IF n = name THEN array ELSE m[n]]
DeleteCollection(m, name) == [n \in DOMAIN m \ {name} |-> m[n]]

\* the fields the handlers work on, as one value, so that the handlers that
\* run one after the other within a click can be composed
App ==
  [allCollections |-> allCollections,
   currentCollectionName |-> currentCollectionName,
   currentCollectionData |-> currentCollectionData,
   shared |-> shared, editingIndex |-> editingIndex,
   visibleView |-> visibleView, nameCollectionModal |-> nameCollectionModal,
   confirmModal |-> confirmModal, collectionsList |-> collectionsList,
   pendingSaves |-> pendingSaves, persisted |-> persisted]
Becomes(a) ==
  /\ allCollections' = a.allCollections
  /\ currentCollectionName' = a.currentCollectionName
  /\ currentCollectionData' = a.currentCollectionData
  /\ shared' = a.shared
  /\ editingIndex' = a.editingIndex
  /\ visibleView' = a.visibleView
  /\ nameCollectionModal' = a.nameCollectionModal
  /\ confirmModal' = a.confirmModal
  /\ collectionsList' = a.collectionsList
  /\ pendingSaves' = a.pendingSaves
  /\ persisted' = a.persisted

\* lines 367-383
showView(a, viewId) ==
  IF viewId = "collectionDataView"
  THEN [a EXCEPT !.visibleView = viewId]
  ELSE [a EXCEPT !.visibleView = viewId, !.currentCollectionName = "",
                 !.currentCollectionData = <<>>, !.shared = FALSE]

\* lines 426-433
loadCurrentCollectionData(a) ==
  LET name == a.currentCollectionName IN
  IF name # "" /\ HasCollection(a.allCollections, name)
  THEN [a EXCEPT !.currentCollectionData =
                    IF name \in DOMAIN a.allCollections
                    THEN a.allCollections[name] ELSE <<>>,
                 !.shared = name \in DOMAIN a.allCollections]
  ELSE [a EXCEPT !.currentCollectionData = <<>>, !.shared = FALSE]

\* lines 470-478
accessExistingCollection(a, collectionName) ==
  showView(loadCurrentCollectionData(
             [a EXCEPT !.currentCollectionName = collectionName]),
           "collectionDataView")

\* lines 480-504: the list shows the own keys of allCollections
renderCollectionsList(a) ==
  [a EXCEPT !.collectionsList = DOMAIN a.allCollections]

\* a write to currentCollectionData in place (push, splice, index
\* assignment) is seen through allCollections when the array is shared
InPlace(a, array) ==
  [a EXCEPT !.currentCollectionData = array,
            !.allCollections =
               IF a.shared /\ a.currentCollectionName \in DOMAIN @
               THEN SetCollection(@, a.currentCollectionName, array)
               ELSE @]

\* storageManager.setItem('allEquipmentCollections', allCollections) once the
\* manager is ready: the value is stored, or the write fails and the store
\* keeps what it had
StorageManager_setItem(a, ok) ==
  IF ok THEN Stored(a.allCollections) ELSE a.persisted

\* lines 416-419: saveAllCollections up to its await.  The manager writes at
\* once when it is ready and when init() is done with it otherwise
Save(op, name, phase) == [op |-> op, name |-> name, phase |-> phase]
saveAllCollections(a, op, name, ok) ==
  IF storageReady
  THEN [a EXCEPT !.persisted = StorageManager_setItem(a, ok),
                 !.pendingSaves =
                    Append(@, Save(op, name, IF ok THEN "written" ELSE "failed"))]
  ELSE [a EXCEPT !.pendingSaves = Append(@, Save(op, name, "waiting"))]

\* lines 435-440, up to the await
saveCurrentCollectionData(a, op, ok) ==
  IF a.currentCollectionName # ""
  THEN saveAllCollections(
         [a EXCEPT !.allCollections =
                      SetCollection(@, a.currentCollectionName,
                                    a.currentCollectionData),
                   !.shared = TRUE],
         op, a.currentCollectionName, ok)
  ELSE a

\* (variant: createNewCollection without the test for an existing name)
createNewCollection_overwriting(a, name, ok) ==
  IF name # ""
  THEN saveAllCollections(
         [a EXCEPT !.allCollections = SetCollection(@, name, <<>>)],
         "createNewCollection", name, ok)
  ELSE a

\* lines 449-458: createNewCollection once the name dialog has resolved with
\* name, up to the await of saveAllCollections
createNewCollection(a, name, ok) ==
  IF name # ""
  THEN IF HasCollection(a.allCollections, name)
       THEN [a EXCEPT !.nameCollectionModal = "flex"]
       ELSE saveAllCollections(
              [a EXCEPT !.allCollections = SetCollection(@, name, <<>>)],
              "createNewCollection", name, ok)
  ELSE a

\* lines 510-511, 625-626, 645-646: the actions behind the confirm dialog,
\* once it has resolved with true, up to their await
Listener(op, name, index) == [op |-> op, name |-> name, index |-> index]
Confirmed(a, l, ok) ==
  CASE l.op = "deleteCollection" ->
         saveAllCollections(
           [a EXCEPT !.allCollections = DeleteCollection(@, l.name),
                     !.shared = IF a.currentCollectionName = l.name
                                THEN FALSE ELSE @],
           l.op, l.name, ok)
    [] l.op = "deleteItem" ->
         saveCurrentCollectionData(
           InPlace(a, Splice(a.currentCollectionData, l.index)), l.op, ok)
    [] l.op = "clearAllItems" ->
         saveCurrentCollectionData(
           [a EXCEPT !.currentCollectionData = <<>>, !.shared = FALSE],
           l.op, ok)

\* the continuations of one click run in the order their listeners were
\* registered
RECURSIVE RunConfirmed(_, _, _)
RunConfirmed(a, listeners, oks) ==
  IF listeners = <<>> THEN a
  ELSE RunConfirmed(Confirmed(a, Head(listeners), oks[Len(listeners)]),
                    Tail(listeners), oks)
RECURSIVE RunNamed(_, _, _, _)
RunNamed(a, n, name, ok) ==
  IF n = 0 THEN a
  ELSE RunNamed(createNewCollection(a, name, ok), n - 1, name, ok)
\* the saves a click adds
Outcomes == [1..(MaxPending + MaxListeners) -> BOOLEAN]

\* no dialog covers the page
NoDialog == nameCollectionModal = "none" /\ confirmModal = "none"
Untouched == UNCHANGED <<swVars, storageVars, storageReady, load>>

\* click on createNewCollectionBtn: lines 446-448 and 781-803, the name
\* dialog opens and its two listeners are registered
createNewCollectionBtn_click ==
  /\ visibleView = "mainScreen"
  /\ NoDialog
  /\ nameListeners < MaxListeners
  /\ Becomes([App EXCEPT !.nameCollectionModal = "flex"])
  /\ nameListeners' = nameListeners + 1
  /\ carried' = <<>>
  /\ UNCHANGED confirmListeners
  /\ Untouched

\* click on confirmNameBtn with text in the input: every handleConfirm that
\* is registered resolves its promise with the trimmed text
confirmNameBtn_click(text) ==
  /\ nameCollectionModal = "flex"
  /\ nameListeners > 0
  /\ Len(pendingSaves) < MaxPending
  /\ \E ok \in BOOLEAN :
       Becomes(RunNamed([App EXCEPT !.nameCollectionModal = "none"],
                        nameListeners, trimName(text), ok))
  /\ nameListeners' = 0
  /\ carried' = <<>>
  /\ UNCHANGED confirmListeners
  /\ Untouched

\* click on cancelNameBtn: every handleCancel rejects its promise, which
\* createNewCollection catches
cancelNameBtn_click ==
  /\ nameCollectionModal = "flex"
  /\ nameListeners > 0
  /\ Becomes([App EXCEPT !.nameCollectionModal = "none"])
  /\ nameListeners' = 0
  /\ carried' = <<>>
  /\ UNCHANGED confirmListeners
  /\ Untouched

\* lines 342-361: a click on a close button or outside the dialog hides the
\* dialog; the listeners on its buttons stay
setupModalListeners_dismiss ==
  /\ ~NoDialog
  /\ Becomes([App EXCEPT !.nameCollectionModal = "none",
                         !.confirmModal = "none"])
  /\ carried' = <<>>
  /\ UNCHANGED <<nameListeners, confirmListeners>>
  /\ Untouched

\* lines 465-468
showCollectionsList ==
  /\ visibleView = "mainScreen"
  /\ NoDialog
  /\ Becomes(showView(renderCollectionsList(App), "collectionsView"))
  /\ carried' = <<>>
  /\ UNCHANGED <<nameListeners, confirmListeners>>
  /\ Untouched

\* lines 319-322: homeButton and backToMainBtn show the main screen,
\* backToCollectionsBtn the list of collections
showView_click(viewId) ==
  /\ NoDialog
  /\ \/ viewId = "mainScreen" /\ visibleView # "mainScreen"
     \/ viewId = "collectionsView" /\ visibleView = "collectionDataView"
  /\ Becomes(showView(App, viewId))
  /\ carried' = <<>>
  /\ UNCHANGED <<nameListeners, confirmListeners>>
  /\ Untouched

\* the Acessar button of a collection in the list
accessExistingCollection_click(collectionName) ==
  /\ visibleView = "collectionsView"
  /\ NoDialog
  /\ collectionName \in collectionsList
  /\ Becomes(accessExistingCollection(App, collectionName))
  /\ carried' = <<>>
  /\ UNCHANGED <<nameListeners, confirmListeners>>
  /\ Untouched

\* lines 806-826: the confirm dialog opens for an action and its two
\* listeners are registered
showConfirmModal(l) ==
  /\ NoDialog
  /\ Len(confirmListeners) < MaxListeners
  /\ Becomes([App EXCEPT !.confirmModal = "flex"])
  /\ confirmListeners' = Append(confirmListeners, l)
  /\ carried' = <<>>
  /\ UNCHANGED nameListeners
  /\ Untouched

\* the Excluir button of a collection in the list, lines 506-508
deleteCollection(collectionName) ==
  /\ visibleView = "collectionsView"
  /\ collectionName \in collectionsList
  /\ showConfirmModal(Listener("deleteCollection", collectionName, -1))

\* the Excluir button of a row of the table, line 623
deleteItem(index) ==
  /\ visibleView = "collectionDataView"
  /\ At(currentCollectionData, index) # Hole
  /\ showConfirmModal(Listener("deleteItem", "", index))

\* clearAllItemsBtn, lines 641-643
clearAllItems ==
  /\ visibleView = "collectionDataView"
  /\ showConfirmModal(Listener("clearAllItems", "", -1))

\* click on confirmActionBtn: every handleConfirm that is registered resolves
\* its promise with true, and the action that awaited it is carried out
confirmActionBtn_click ==
  /\ confirmModal = "flex"
  /\ confirmListeners # <<>>
  /\ Len(pendingSaves) < MaxPending
  /\ \E oks \in Outcomes :
       Becomes(RunConfirmed([App EXCEPT !.confirmModal = "none"],
                            confirmListeners, oks))
  /\ carried' = confirmListeners
  /\ confirmListeners' = <<>>
  /\ UNCHANGED nameListeners
  /\ Untouched

\* click on cancelActionBtn: every handleCancel resolves its promise with
\* false
cancelActionBtn_click ==
  /\ confirmModal = "flex"
  /\ confirmListeners # <<>>
  /\ Becomes([App EXCEPT !.confirmModal = "none"])
  /\ confirmListeners' = <<>>
  /\ carried' = <<>>
  /\ UNCHANGED nameListeners
  /\ Untouched

\* the Editar button of a row of the table, lines 596-620
editItem(index) ==
  /\ visibleView = "collectionDataView"
  /\ NoDialog
  /\ At(currentCollectionData, index) # Hole
  /\ Becomes([App EXCEPT !.editingIndex = index])
  /\ carried' = <<>>
  /\ UNCHANGED <<nameListeners, confirmListeners>>
  /\ Untouched

\* lines 632-639
clearForm ==
  /\ visibleView = "collectionDataView"
  /\ NoDialog
  /\ Becomes([App EXCEPT !.editingIndex = -1])
  /\ carried' = <<>>
  /\ UNCHANGED <<nameListeners, confirmListeners>>
  /\ Untouched

\* (variant: the test for digits is left out)
Submitted_anyText(a, form, ok) ==
  LET newItem == NewItem(form) IN
  IF Validation(newItem) \notin {"ok", "PAT. SIADS", "PAT. EBSERH"}
  THEN a
  ELSE saveCurrentCollectionData(
         IF a.editingIndex = -1
         THEN InPlace(a, Append(a.currentCollectionData, newItem))
         ELSE [InPlace(a, SetAt(a.currentCollectionData, a.editingIndex,
                                newItem))
                 EXCEPT !.editingIndex = -1],
         "handleFormSubmit", ok)

\* lines 521-589: handleFormSubmit up to its await
Submitted(a, form, ok) ==
  LET newItem == NewItem(form) IN
  IF Validation(newItem) # "ok"
  THEN a
  ELSE saveCurrentCollectionData(
         IF a.editingIndex = -1
         THEN InPlace(a, Append(a.currentCollectionData, newItem))
         ELSE [InPlace(a, SetAt(a.currentCollectionData, a.editingIndex,
                                newItem))
                 EXCEPT !.editingIndex = -1],
         "handleFormSubmit", ok)

\* submit of the form with the inputs holding form
handleFormSubmit(form) ==
  /\ visibleView = "collectionDataView"
  /\ NoDialog
  /\ Len(pendingSaves) < MaxPending
  /\ editingIndex = -1 => Len(currentCollectionData) < MaxItems
  /\ \E ok \in BOOLEAN : Becomes(Submitted(App, form, ok))
  /\ carried' = <<>>
  /\ UNCHANGED <<nameListeners, confirmListeners>>
  /\ Untouched

\* the storage manager's init() resolves: the getItem of loadAllCollections
\* reads the store (or fails), then the writes that waited are made, in the
\* order of their calls, each with allCollections as it is now
RECURSIVE WriteWaiting(_, _, _)
WriteWaiting(a, i, oks) ==
  IF i > Len(a.pendingSaves) THEN a
  ELSE WriteWaiting(
         [a EXCEPT !.persisted = StorageManager_setItem(a, oks[i]),
                   !.pendingSaves[i].phase =
                      IF oks[i] THEN "written" ELSE "failed"],
         i + 1, oks)
StorageManager_ready ==
  /\ ~storageReady
  /\ storageReady' = TRUE
  /\ \E status \in {"resolved", "rejected"} :
       load' = [load EXCEPT !.status = status, !.result = persisted]
  /\ \E oks \in Outcomes : Becomes(WriteWaiting(App, 1, oks))
  /\ carried' = <<>>
  /\ UNCHANGED <<swVars, storageVars, nameListeners, confirmListeners>>

\* (variant: a getItem that rejects leaves allCollections as it is)
Loaded_keeping(a, l) ==
  showView(
    renderCollectionsList(
      [a EXCEPT !.allCollections =
                   IF l.status = "resolved"
                   THEN (IF l.result.stored THEN l.result.value
                         ELSE EmptyMapping)
                   ELSE @,
                !.shared = FALSE]),
    "mainScreen")

\* lines 404-414 and 862-864: loadAllCollections after its await, then
\* showView('mainScreen')
Loaded(a, l) ==
  showView(
    renderCollectionsList(
      [a EXCEPT !.allCollections =
                   IF l.status = "resolved" /\ l.result.stored
                   THEN l.result.value ELSE EmptyMapping,
                !.shared = FALSE]),
    "mainScreen")
loadAllCollections_return ==
  /\ load.pc = "awaitGet"
  /\ load.status # "none"
  /\ load' = [load EXCEPT !.pc = "done"]
  /\ Becomes(Loaded(App, load))
  /\ carried' = <<>>
  /\ UNCHANGED <<swVars, storageVars, storageReady, nameListeners,
                 confirmListeners>>

\* the oldest saveAllCollections returns (lines 419-423: it renders the list
\* when the write succeeded and shows a message when it failed), and the
\* operation that awaited it goes on: createNewCollection opens the new
\* collection (line 458), deleteCollection renders the list (line 513)
Returned(a, save) ==
  LET b == IF save.phase = "written" THEN renderCollectionsList(a) ELSE a
      c == [b EXCEPT !.pendingSaves = Tail(@)]
  IN CASE save.op = "createNewCollection" ->
            accessExistingCollection(c, save.name)
       [] save.op = "deleteCollection" -> renderCollectionsList(c)
       [] OTHER -> c
saveAllCollections_return ==
  /\ pendingSaves # <<>>
  /\ Head(pendingSaves).phase # "waiting"
  /\ load.pc = "done"
  /\ Becomes(Returned(App, Head(pendingSaves)))
  /\ carried' = <<>>
  /\ UNCHANGED <<nameListeners, confirmListeners>>
  /\ Untouched

AppInit ==
  /\ env = "missing"
  /\ openRequest = "none"
  /\ idb = NoStore
  /\ objectStoreNames = {}
  /\ txq = <<>>
  /\ ls = Storage_clear(<<>>)
  /\ db = "null"
  /\ isIndexedDBAvailable = FALSE
  /\ initRuns = 1
  /\ openAttempts = 0
  /\ initPc = "done"
  /\ initPromise = "resolved"
  /\ task = [t \in Tasks |-> IdleTask]
  /\ calls = 0
  /\ acc = NoAccess
  /\ ColetasApp_constructor
  /\ persisted \in {Absent, Stored(EmptyMapping),
                    Stored([n \in {"a"} |-> <<NewItem(FilledForm)>>])}
  /\ NoWorker

AppNext ==
  \/ createNewCollectionBtn_click
  \/ \E text \in NameInputs : confirmNameBtn_click(text)
  \/ cancelNameBtn_click
  \/ setupModalListeners_dismiss
  \/ showCollectionsList
  \/ \E viewId \in {"mainScreen", "collectionsView"} : showView_click(viewId)
  \/ \E name \in Names : accessExistingCollection_click(name)
  \/ \E name \in Names : deleteCollection(name)
  \/ \E index \in 0..(MaxItems - 1) : deleteItem(index)
  \/ clearAllItems
  \/ confirmActionBtn_click
  \/ cancelActionBtn_click
  \/ \E index \in 0..(MaxItems - 1) : editItem(index)
  \/ clearForm
  \/ \E form \in Forms : handleFormSubmit(form)
  \/ StorageManager_ready
  \/ loadAllCollections_return
  \/ saveAllCollections_return

AppSpec == AppInit /\ [][AppNext]_vars

\* ---------------------------------------------------------- service workers
\* src/sw.js and src/unnamed/part_001 (the offline worker): one of the two
\* scripts is installed, activated and then handles fetch events
MaxFetches == 2                      \* fetch events dispatched

Workers == {"sw.js", "part_001"}
\* line 1 of each script
CACHE_NAME ==
  IF worker = "sw.js" THEN "coletas-v2.0" ELSE "coletas-offline-v2.1"
\* the caches an origin may hold when a worker is installed
CacheNames == {"coletas-v2.0", "coletas-offline-v2.1", "coletas-v1"}

Root      == "./"
IndexHtml == "./index.html"
Manifest  == "./manifest.json"
FontCss   == "https://fonts.googleapis.com/css2"
FontWoff2 == "https://fonts.gstatic.com/s/inter.woff2"
\* sw.js lines 2-6, part_001 lines 4-10
urlsToCache ==
  IF worker = "sw.js" THEN {IndexHtml, Manifest, FontCss}
  ELSE {Root, IndexHtml, Manifest, FontCss, FontWoff2}
\* part_001 lines 25-28
urlsToCacheAtLeast == {Root, IndexHtml}
SameOrigin(url) == url \notin {FontCss, FontWoff2}

NewRequest(url, mode) == [url |-> url, mode |-> mode]
\* the requests of the fetch events: the page, another page of the
\* application, files of the application, a font
Requests ==
  {NewRequest(IndexHtml, "navigate"), NewRequest("./coleta", "navigate"),
   NewRequest("./icon.png", "no-cors"), NewRequest(FontCss, "no-cors")}

Response(status, type, body) == [status |-> status, type |-> type, body |-> body]
NoResponse   == Response(-1, "none", "")
\* a network error: what respondWith gives for a promise that rejects or
\* resolves with undefined
NetworkError == Response(0, "error", "")
\* what the network answers to a request when it answers
NetworkResponses(url) ==
  IF SameOrigin(url)
  THEN {Response(200, "basic", "network"), Response(404, "basic", "network")}
  ELSE {Response(200, "cors", "network"), Response(0, "opaque", "network"),
        Response(404, "cors", "network")}
\* what cache.addAll stores for a url
Installed(url) ==
  Response(200, IF SameOrigin(url) THEN "basic" ELSE "cors", "installed")
\* a cache left by an earlier version
OldCache == [u \in {IndexHtml, "./icon.png"} |-> Response(200, "basic", "old")]

\* caches.open(name): the cache is created when there is none
CacheStorage_open(c, name) ==
  IF name \in DOMAIN c THEN c
  ELSE [n \in DOMAIN c \cup {name} |-> IF n = name THEN <<>> ELSE c[n]]
\* caches.delete(name)
CacheStorage_delete(c, name) == [n \in DOMAIN c \ {name} |-> c[n]]
\* caches.match(url): a response of some cache that holds the url
CacheStorage_match(c, url) ==
  {c[n][url] : n \in {m \in DOMAIN c : url \in DOMAIN c[m]}}
\* cache.put(url, response) on the cache called name
Cache_put(c, name, url, response) ==
  [c EXCEPT ![name] =
     [u \in DOMAIN @ \cup {url} |-> IF u = url THEN response ELSE @[u]]]
\* cache.addAll(urls) on the cache called name
Cache_addAll(c, name, urls) ==
  [c EXCEPT ![name] =
     [u \in DOMAIN @ \cup urls |-> IF u \in urls THEN Installed(u) ELSE @[u]]]

\* sw.js lines 9-20, part_001 lines 13-20: the install handler's
\* caches.open(CACHE_NAME).then(cache => cache.addAll(urlsToCache)); addAll
\* stores every response or, when a request fails, none
install_then(ok) ==
  /\ workerState = "installing"
  /\ caches' = IF ok
               THEN Cache_addAll(CacheStorage_open(caches, CACHE_NAME),
                                 CACHE_NAME, urlsToCache)
               ELSE CacheStorage_open(caches, CACHE_NAME)
  /\ workerState' = IF ok THEN "installed"
                    ELSE IF worker = "part_001" THEN "installing.catch"
                    ELSE "redundant"
  /\ UNCHANGED <<storageVars, appVars, worker, activation, fetchEvents>>

\* part_001 lines 21-30: the catch of the install handler
install_catch(ok) ==
  /\ workerState = "installing.catch"
  /\ caches' = IF ok
               THEN Cache_addAll(CacheStorage_open(caches, CACHE_NAME),
                                 CACHE_NAME, urlsToCacheAtLeast)
               ELSE CacheStorage_open(caches, CACHE_NAME)
  /\ workerState' = IF ok THEN "installed" ELSE "redundant"
  /\ UNCHANGED <<storageVars, appVars, worker, activation, fetchEvents>>

\* sw.js lines 55-66, part_001 lines 107-118: the activate handler up to the
\* calls of caches.delete, one for each name of caches.keys() that is not
\* CACHE_NAME
activate ==
  /\ workerState = "installed"
  /\ workerState' = "activating"
  /\ activation' = [cacheNames |-> DOMAIN caches,
                    pending |-> {cacheName \in DOMAIN caches :
                                   cacheName # CACHE_NAME},
                    failed |-> FALSE, promise |-> "pending"]
  /\ UNCHANGED <<storageVars, appVars, worker, caches, fetchEvents>>

\* a caches.delete(cacheName) of the activate handler is done: the cache is
\* gone, or the delete failed and its promise rejects
caches_delete(cacheName, ok) ==
  /\ cacheName \in activation.pending
  /\ caches' = IF ok THEN CacheStorage_delete(caches, cacheName) ELSE caches
  /\ activation' = [activation EXCEPT !.pending = @ \ {cacheName},
                                      !.failed = @ \/ ~ok]
  /\ UNCHANGED <<storageVars, appVars, worker, workerState, fetchEvents>>

\* the Promise.all given to waitUntil settles: it rejects with the first
\* delete that rejects and is fulfilled when every delete is; the worker is
\* activated either way
waitUntil_settle ==
  /\ workerState = "activating"
  /\ activation.failed \/ activation.pending = {}
  /\ activation' = [activation EXCEPT !.promise =
                      IF activation.failed THEN "rejected" ELSE "fulfilled"]
  /\ workerState' = "activated"
  /\ UNCHANGED <<storageVars, appVars, worker, caches, fetchEvents>>

\* a fetch event: its request, where its handler is, whether caches.match
\* found a response, the network requests made for it, what the network
\* gave, and what respondWith got
FetchEvent(request, requests) ==
  [request |-> request, pc |-> "match", hit |-> FALSE, requests |-> requests,
   fetched |-> NoResponse, respondedWith |-> NoResponse]

\* a fetch event is dispatched and its listeners run.  sw.js lines 23-25 and
\* part_001 lines 37-43, 78-79 call respondWith(caches.match(...)); the
\* second listener of part_001 (lines 143-154) evaluates fetch(event.request)
\* for a navigation before its respondWith throws, respondWith having been
\* called by the first listener
dispatchFetch(request) ==
  /\ workerState = "activated"
  /\ Len(fetchEvents) < MaxFetches
  /\ fetchEvents' =
       Append(fetchEvents,
              FetchEvent(request,
                         IF worker = "part_001" /\ request.mode = "navigate"
                         THEN 1 ELSE 0))
  /\ UNCHANGED <<storageVars, appVars, worker, workerState, caches, activation>>

\* sw.js lines 26-32, part_001 lines 44-51 and 80-86: caches.match has
\* resolved; a response found is the answer, otherwise fetch is called
caches_match_then(i) ==
  /\ i \in DOMAIN fetchEvents
  /\ fetchEvents[i].pc = "match"
  /\ LET found == CacheStorage_match(caches, fetchEvents[i].request.url) IN
       IF found # {}
       THEN \E response \in found :
              fetchEvents' = [fetchEvents EXCEPT ![i].pc = "done",
                                                 ![i].hit = TRUE,
                                                 ![i].respondedWith = response]
       ELSE fetchEvents' = [fetchEvents EXCEPT ![i].pc = "fetch",
                                               ![i].requests = @ + 1]
  /\ UNCHANGED <<storageVars, appVars, worker, workerState, caches, activation>>

\* sw.js line 35, part_001 lines 54 and 88: the responses that are stored
Cacheable(response) ==
  /\ response.status = 200
  /\ worker = "sw.js" => response.type = "basic"

\* sw.js lines 33-47, part_001 lines 52-62 and 87-96: the network has
\* answered; the response is the answer and, when it is one to store,
\* caches.open(CACHE_NAME) is called for it
fetch_then(i, response) ==
  /\ i \in DOMAIN fetchEvents
  /\ fetchEvents[i].pc = "fetch"
  /\ fetchEvents' = [fetchEvents EXCEPT
                       ![i].pc = IF Cacheable(response) THEN "put" ELSE "done",
                       ![i].fetched = response,
                       ![i].respondedWith = response]
  /\ UNCHANGED <<storageVars, appVars, worker, workerState, caches, activation>>

\* caches.match('./index.html') as the answer: a cached response, or
\* undefined, which respondWith turns into a network error
Offline_index(c) ==
  IF CacheStorage_match(c, IndexHtml) = {} THEN {NetworkError}
  ELSE CacheStorage_match(c, IndexHtml)

\* (variant: the offline worker answers a failed navigation like any other
\* request)
Offline_anyMode(request, c) ==
  IF worker = "sw.js" THEN {NetworkError}
  ELSE IF SameOrigin(request.url)
       THEN {Response(404, "default", "")}
       ELSE {Response(200, "default", "")}

\* the answers to a request whose fetch has failed.  sw.js has no handler:
\* the promise given to respondWith rejects.  part_001 lines 63-73 and 97-100
Offline(request, c) ==
  IF worker = "sw.js" THEN {NetworkError}
  ELSE IF SameOrigin(request.url)
       THEN IF request.mode = "navigate" THEN Offline_index(c)
            ELSE {Response(404, "default", "")}
       ELSE {Response(200, "default", "")}

\* the fetch of a request has failed
fetch_catch(i) ==
  /\ i \in DOMAIN fetchEvents
  /\ fetchEvents[i].pc = "fetch"
  /\ \E response \in Offline(fetchEvents[i].request, caches) :
       fetchEvents' = [fetchEvents EXCEPT ![i].pc = "done",
                                          ![i].fetched = NetworkError,
                                          ![i].respondedWith = response]
  /\ UNCHANGED <<storageVars, appVars, worker, workerState, caches, activation>>

\* sw.js lines 42-45, part_001 lines 56-59 and 90-93:
\* caches.open(CACHE_NAME).then(cache => cache.put(event.request, clone))
cache_put(i) ==
  /\ i \in DOMAIN fetchEvents
  /\ fetchEvents[i].pc = "put"
  /\ caches' = Cache_put(CacheStorage_open(caches, CACHE_NAME), CACHE_NAME,
                         fetchEvents[i].request.url, fetchEvents[i].fetched)
  /\ fetchEvents' = [fetchEvents EXCEPT ![i].pc = "done"]
  /\ UNCHANGED <<storageVars, appVars, worker, workerState, activation>>

\* a script is registered where earlier versions may have left caches, and
\* its install event is dispatched
SwInit ==
  /\ env = "missing"
  /\ openRequest = "none"
  /\ idb = NoStore
  /\ objectStoreNames = {}
  /\ txq = <<>>
  /\ ls = Storage_clear(<<>>)
  /\ db = "null"
  /\ isIndexedDBAvailable = FALSE
  /\ initRuns = 1
  /\ openAttempts = 0
  /\ initPc = "done"
  /\ initPromise = "resolved"
  /\ task = [t \in Tasks |-> IdleTask]
  /\ calls = 0
  /\ acc = NoAccess
  /\ ColetasApp_constructor
  /\ persisted = Absent
  /\ worker \in Workers
  /\ workerState = "installing"
  /\ \E names \in SUBSET CacheNames : caches = [n \in names |-> OldCache]
  /\ activation = NoActivation
  /\ fetchEvents = <<>>

SwNext ==
  \/ \E ok \in BOOLEAN : install_then(ok)
  \/ \E ok \in BOOLEAN : install_catch(ok)
  \/ activate
  \/ \E cacheName \in CacheNames, ok \in BOOLEAN : caches_delete(cacheName, ok)
  \/ waitUntil_settle
  \/ \E request \in Requests : dispatchFetch(request)
  \/ \E i \in 1..MaxFetches : caches_match_then(i)
  \/ \E i \in DOMAIN fetchEvents :
       \E response \in NetworkResponses(fetchEvents[i].request.url) :
         fetch_then(i, response)
  \/ \E i \in 1..MaxFetches : fetch_catch(i)
  \/ \E i \in 1..MaxFetches : cache_put(i)

SwSpec == SwInit /\ [][SwNext]_vars

\* ------------------------------------------------------------------ claims
LegacyParseable ==
  /\ LegacyKey \in DOMAIN ls
  /\ ls[LegacyKey] # ""
  /\ JSONParses(ls[LegacyKey])

\* C1: once indexedDB.open has succeeded, init() eventually resolves, whatever
\* localStorage holds under 'allEquipmentCollections' (nothing, an empty
\* text, a text that parses, a text that does not), so that the public calls
\* waiting for it go on.
C1_InitEventuallyResolves ==
  (openRequest = "success") ~> (initPromise = "resolved")

\* C2: with a parseable text under 'allEquipmentCollections' and a successful
\* open, init() resolves with IndexedDB selected and the object store holds,
\* under the same key, the parsed legacy value.
C2_LegacyValueMigrated ==
  (openRequest = "success" /\ LegacyParseable)
    ~> /\ initPromise = "resolved"
       /\ isIndexedDBAvailable
       /\ LegacyParseable
       /\ LegacyKey \in DOMAIN idb
       /\ idb[LegacyKey].value = JSONParse(ls[LegacyKey])

\* C3: init() never rejects; when window.indexedDB is missing or
\* indexedDB.open fails, init() has resolved with localStorage selected, and
\* no caller of a public operation is handed the open failure.
C3_InitNeverRejects ==
  /\ initPromise # "rejected"
  /\ (env = "missing" \/ openRequest = "error")
       => (initPromise = "resolved" /\ ~isIndexedDBAvailable)
  /\ \A t \in Tasks : task[t].result # Error("OpenError")

C3_Witness ==
  /\ openRequest = "error"
  /\ \E t \in Callers : /\ task[t].pc = "done"
                        /\ task[t].status = "resolved"
                        /\ task[t].via = "localStorage"

\* C4: init() runs once and indexedDB.open is called at most once, exactly
\* once where window.indexedDB exists, however many public calls are issued
\* before and after init() resolves; all callers are served by one backend.
C4_OneOpenOneInit ==
  /\ initRuns = 1
  /\ openAttempts <= 1
  /\ (env = "available") => (openAttempts = 1)
  /\ \A t, u \in Callers :
       (task[t].via # "none" /\ task[u].via # "none")
         => (task[t].via = task[u].via)

\* two calls wait for an init() that is still pending
C4_Witness ==
  /\ initPromise = "pending"
  /\ openAttempts = 1
  /\ \E t, u \in Callers :
       t # u /\ task[t].pc = "awaitInit" /\ task[u].pc = "awaitInit"

\* C5: a getItem(k) issued after an awaited setItem(k, v), with no write to k
\* in between, returns v, under both backends.
C5_RoundTrip ==
  \A t \in Callers :
    ( /\ task[t].pc = "done"
      /\ task[t].op = "getItem"
      /\ task[t].status = "resolved"
      /\ task[t].expect \in JSONValues )
    => (task[t].result = task[t].expect)

\* C6: when window.indexedDB is missing or indexedDB.open fails, init() has
\* resolved, every call is served by localStorage, the object store is neither
\* read nor written, setItem leaves the serialised value under its key,
\* getItem returns what localStorage holds and exportData returns exactly the
\* contents of localStorage.
FallbackSelected == env = "missing" \/ openRequest = "error"
C6_FallbackPath ==
  FallbackSelected =>
    /\ initPromise = "resolved" /\ ~isIndexedDBAvailable
    /\ txq = <<>> /\ acc.backend # "indexedDB" /\ idb \in PriorStores
    /\ \A t \in Callers :
         /\ task[t].via # "indexedDB"
         /\ (task[t].pc = "done" /\ task[t].status = "resolved" /\ acc.by = t)
            => CASE task[t].op = "setItem" ->
                      /\ task[t].key \in DOMAIN ls
                      /\ ls[task[t].key] = JSONStringify(task[t].value)
                 [] task[t].op = "getItem" ->
                      task[t].result =
                        IF task[t].key \in DOMAIN ls /\ ls[task[t].key] # ""
                        THEN JSONParse(ls[task[t].key]) ELSE JNull
                 [] task[t].op = "exportData" ->
                      /\ DOMAIN task[t].result.m = DOMAIN ls
                      /\ \A k \in DOMAIN ls :
                           task[t].result.m[k] = JSONParse(ls[k])
                 [] OTHER -> TRUE

\* exportData has returned a non-empty mapping after a failed open
C6_Witness ==
  /\ openRequest = "error"
  /\ \E t \in Callers : /\ task[t].pc = "done"
                        /\ task[t].op = "exportData"
                        /\ task[t].status = "resolved"
                        /\ DOMAIN task[t].result.m # {}

\* C7: while init() and the migration run, localStorage is not changed; the
\* text under 'allEquipmentCollections' is the same before and after.
C7_MigrationKeepsLocalStorage ==
  [][(initPromise = "pending") => (ls' = ls)]_vars

\* init() has resolved on IndexedDB after a migration that found a legacy text
C7_Witness ==
  /\ openRequest = "success"
  /\ initPromise = "resolved"
  /\ task[Migration].status = "caught"
  /\ LegacyKey \in DOMAIN ls

\* C8: once init() has resolved, the init promise, init() and the selection
\* do not change, whatever happens later; init() never goes back to opening;
\* with IndexedDB selected localStorage is not accessed any more, and a
\* request that fails rejects its call.
C8_SelectionFixed ==
  [][ /\ (initPromise = "resolved")
         => /\ initPromise' = "resolved"
            /\ initPc' = "done"
            /\ isIndexedDBAvailable' = isIndexedDBAvailable
      /\ (initPc = "awaitMigrate") => (initPc' # "awaitOpen")
      /\ (initPromise = "resolved" /\ isIndexedDBAvailable)
         => (ls' = ls /\ (acc' # acc => acc'.backend = "indexedDB"))
      /\ \A t \in Callers :
           (task'[t].result = Error("RequestError"))
             => (task'[t].status = "rejected")
    ]_vars

\* a request has failed with IndexedDB selected
C8_Witness ==
  /\ initPromise = "resolved"
  /\ isIndexedDBAvailable
  /\ \E t \in Callers : /\ task[t].status = "rejected"
                        /\ task[t].result = Error("RequestError")

\* C9: no call of a public operation reads or writes a backend before init()
\* has resolved, and every call is dispatched to the backend init() selected.
C9_NoAccessBeforeInit ==
  /\ (acc.by \in Callers) => acc.ready
  /\ (txq # <<>>) => (initPromise = "resolved")
  /\ \A t \in Callers :
       (task[t].via # "none")
         => /\ initPromise = "resolved"
            /\ task[t].via = IF isIndexedDBAvailable THEN "indexedDB"
                             ELSE "localStorage"

\* a call has been served by IndexedDB after init() resolved
C9_Witness ==
  /\ acc.by \in Callers
  /\ \E t \in Callers : /\ task[t].pc = "done"
                        /\ task[t].via = "indexedDB"
                        /\ task[t].status = "resolved"

C11_Overwrite ==
  /\ \A k \in DOMAIN idb : idb[k].key = k
  /\ \A t \in Callers :
       (task[t].pc = "done" /\ task[t].status = "resolved")
       => /\ ( /\ task[t].op = "getItem"
               /\ task[t].expect \in JSONValues
               /\ task[t].before \in JSONValues )
             => (task[t].result = task[t].expect)
          /\ ( /\ task[t].op = "exportData"
               /\ task[t].expect.kind = "put"
               /\ task[t].expect.prev \in JSONValues )
             => /\ task[t].expect.key \in DOMAIN task[t].result.m
                /\ task[t].result.m[task[t].expect.key] = task[t].expect.value

\* C12: after an awaited clear(), a first one or one that follows another
\* clear(), and no write since, the active backend is empty, and an
\* exportData() issued then returns the empty mapping.
ActiveStoreEmpty ==
  IF isIndexedDBAvailable THEN DOMAIN idb = {} ELSE DOMAIN ls = {}
ClearPending(t) ==
  task[t].op = "clear" /\ task[t].pc \in {"awaitInit", "awaitReq"}
C13_ClearActiveBackendOnly ==
  [][ \A t \in Callers :
        (ClearPending(t) /\ initPromise = "resolved")
        => IF isIndexedDBAvailable
           THEN /\ ls' = ls
                /\ (task'[t].pc = "done" /\ task'[t].status = "resolved")
                     => (DOMAIN idb' = {})
           ELSE /\ idb' = idb /\ txq' = txq
                /\ (task'[t].pc = "done" /\ task'[t].status = "resolved")
                     => (DOMAIN ls' = {})
    ]_vars

\* clear() has resolved on IndexedDB and the legacy copy is still there
C13_Witness ==
  /\ isIndexedDBAvailable
  /\ LegacyKey \in DOMAIN ls
  /\ DOMAIN idb = {}
  /\ \E t \in Callers : /\ task[t].pc = "done"
                        /\ task[t].op = "clear"
                        /\ task[t].status = "resolved"

\* C14: a setItem on IndexedDB resolves only once its write is committed: no
\* resolved setItem has its transaction still waiting to commit (where it may
\* yet abort and be rolled back), and a setItem whose transaction aborts is
\* rejected.
C14_ResolvesOnceCommitted ==
  \A t \in Callers :
    ( /\ task[t].op = "setItem"
      /\ task[t].pc = "done"
      /\ task[t].status = "resolved"
      /\ task[t].via = "indexedDB" )
    => \A i \in 1..Len(txq) :
         ~(txq[i].task = t /\ txq[i].phase = "committing")

\* C15: importData writes its pairs one after the other, never with two
\* requests of its own waiting at once; when it is the only call of the session
\* and is rejected at its second pair, the first pair is stored, and when it is
\* rejected at its first pair, the second pair has not been written.
StoredValue(backend, key) ==
  IF backend = "indexedDB"
  THEN IF key \in DOMAIN idb THEN idb[key].value ELSE NoItem
  ELSE IF key \in DOMAIN ls THEN JSONParse(ls[key]) ELSE NoItem
C15_ImportSequentialNoRollback ==
  \A t \in Callers :
    task[t].op = "importData"
    => /\ Cardinality({i \in 1..Len(txq) :
                         txq[i].task = t /\ txq[i].phase = "queued"}) <= 1
       /\ ( /\ calls = 1
            /\ task[t].pc = "done"
            /\ task[t].status = "rejected" )
          => /\ task[t].key = OtherKey
                => StoredValue(task[t].via, LegacyKey) = JObj(<<"A">>)
             /\ task[t].key = LegacyKey
                => /\ task[t].rest # <<>>
                   /\ StoredValue(task[t].via, OtherKey) # JZero

\* C16: a setItem whose write fails (localStorage.setItem throws, or the put
\* request errors) is rejected at a step that changes neither store, on the
\* selected backend and with no request of its own left waiting; and a setItem
\* that has been handed to a backend is never handed to one again.
SelectedBackend == IF isIndexedDBAvailable THEN "indexedDB" ELSE "localStorage"
C16_FailedWriteRejectsOnce ==
  [][ \A t \in Callers :
        task[t].op = "setItem"
        => /\ ( /\ task[t].pc # "done"
                /\ task'[t].pc = "done"
                /\ task'[t].status = "rejected" )
              => /\ ls' = ls
                 /\ idb' = idb
                 /\ task'[t].via = SelectedBackend
                 /\ \A i \in 1..Len(txq') :
                      ~(txq'[i].task = t /\ txq'[i].phase = "queued")
           /\ (task[t].via # "none" /\ task'[t].via # "none")
              => /\ task'[t].pc # "awaitInit"
                 /\ task'[t].via = task[t].via
    ]_vars

\* a setItem on the key of the legacy text has been rejected by localStorage
\* and the text is still there
C16_Witness ==
  \E t \in Callers :
    /\ task[t].op = "setItem"
    /\ task[t].pc = "done"
    /\ task[t].status = "rejected"
    /\ task[t].via = "localStorage"
    /\ task[t].key \in DOMAIN ls
    /\ ls[task[t].key] = Garbage

\* C17: when IndexedDB has opened and the legacy text is there but does not
\* parse, the migration has ended without a write and without a request of its
\* own, stays ended for the rest of the session, the object store does not
\* change while init() is pending, and init() is never rejected and never
\* blocked: it has resolved with IndexedDB selected or its return is the next
\* thing it does.
LegacyUnparseable ==
  /\ LegacyKey \in DOMAIN ls
  /\ ~JSONParses(ls[LegacyKey])
C17_MigrationFailureSwallowed ==
  /\ []( (openRequest = "success" /\ LegacyUnparseable)
         => /\ task[Migration].pc = "done"
            /\ task[Migration].status \in {"caught", "skipped"}
            /\ task[Migration].wrote = NoWrite
            /\ \A i \in 1..Len(txq) : txq[i].task # Migration
            /\ initPromise # "rejected"
            /\ isIndexedDBAvailable
            /\ initPromise = "resolved" \/ ENABLED init_return )
  /\ [][ /\ (task[Migration].pc = "done") => (task'[Migration] = task[Migration])
         /\ (initPromise = "pending" /\ LegacyUnparseable) => (idb' = idb)
       ]_vars

\* the legacy text did not parse, init() has resolved on IndexedDB and a call
\* has been served by it
C17_Witness ==
  /\ openRequest = "success"
  /\ LegacyKey \in DOMAIN ls
  /\ ls[LegacyKey] = Garbage
  /\ task[Migration].status = "caught"
  /\ initPromise = "resolved"
  /\ \E t \in Callers : /\ task[t].pc = "done"
                        /\ task[t].status = "resolved"
                        /\ task[t].via = "indexedDB"

\* C18: the migration starts at the one step where the open request succeeds
\* and at no other, and the open request, once settled, stays as it is; while
\* IndexedDB is not selected the migration has not read the legacy key and the
\* object store and its transactions do not change.
C18_MigrationAtMostOnce ==
  [][ /\ (task'[Migration] # task[Migration])
         => (openRequest = "pending" /\ openRequest' = "success")
      /\ (acc'.by = Migration /\ acc' # acc)
         => (openRequest = "pending" /\ openRequest' = "success")
      /\ (openRequest # "pending") => (openRequest' = openRequest)
      /\ (~isIndexedDBAvailable)
         => /\ task[Migration] = IdleTask
            /\ acc.by # Migration
            /\ idb' = idb
            /\ txq' = txq
    ]_vars

\* the open request failed with a legacy value in localStorage that parses,
\* a call has been served by localStorage and the migration never started
C18_Witness ==
  /\ openRequest = "error"
  /\ LegacyParseable
  /\ task[Migration] = IdleTask
  /\ \A k \in DOMAIN idb : idb[k].value = PriorValue
  /\ \E t \in Callers : /\ task[t].pc = "done"
                        /\ task[t].via = "localStorage"

\* C19: a getItem served by localStorage leaves localStorage as it is, resolves
\* with null when nothing is stored under the key, and is rejected when the text
\* stored under the key does not deserialize.
C19_AbsentVersusError ==
  [][ \A t \in Callers :
        ( /\ task[t].op = "getItem"
          /\ task[t].pc = "awaitInit"
          /\ task'[t].pc = "done"
          /\ task'[t].via = "localStorage" )
        => /\ ls' = ls
           /\ (task[t].key \notin DOMAIN ls)
              => (task'[t].status = "resolved" /\ task'[t].result = JNull)
           /\ (task[t].key \in DOMAIN ls /\ ~JSONParses(ls[task[t].key]))
              => task'[t].status = "rejected"
    ]_vars

\* C20: no call waits for the calls of others: once init() has resolved every
\* call that has been issued can be handed to the backend at once, whatever is
\* in flight, so a setItem and a clear issued together can go in either order.
\* The requests are performed in the order the calls were handed over, one
\* transaction at a time, and a put whose transaction commits leaves its entry
\* in the object store, whatever clear came before it; on localStorage a
\* setItem that resolves leaves its text there.
C20_ClearDoesNotWait ==
  /\ [](\A t \in Callers :
          (task[t].pc = "awaitInit" /\ initPromise = "resolved")
          => ENABLED Resume(t))
  /\ [][ /\ \/ txq' = txq
            \/ txq # <<>> /\ txq' = Tail(txq)
            \/ txq # <<>> /\ Len(txq') = Len(txq) /\ Tail(txq') = Tail(txq)
            \/ Len(txq') = Len(txq) + 1 /\ SubSeq(txq', 1, Len(txq)) = txq
         /\ (idb' # idb)
            => /\ txq # <<>>
               /\ \/ idb' = RequestEffect(Head(txq), idb)
                  \/ idb' = Head(txq).undo
         /\ ( /\ txq # <<>>
              /\ Head(txq).phase = "committing"
              /\ txq' = Tail(txq)
              /\ idb' = idb )
            => /\ Head(txq).key \in DOMAIN idb'
               /\ idb'[Head(txq).key] = Head(txq).data
         /\ \A t \in Callers :
              ( /\ task[t].op = "setItem"
                /\ task[t].pc = "awaitInit"
                /\ task'[t].pc = "done"
                /\ task'[t].status = "resolved"
                /\ task'[t].via = "localStorage" )
              => /\ task[t].key \in DOMAIN ls'
                 /\ ls'[task[t].key] = JSONStringify(task[t].value)
       ]_vars

\* a clear and a setItem are in flight together, the clear first
C20_Witness ==
  /\ Len(txq) = 2
  /\ txq[1].op = "clear" /\ txq[1].phase = "queued"
  /\ txq[2].op = "put" /\ txq[2].phase = "queued"
  /\ txq[1].task # txq[2].task
  /\ task[txq[1].task].op = "clear"
  /\ task[txq[2].task].op = "setItem"

\* C21: at the step where exportData resolves, its mapping has exactly the keys
\* of the selected backend and maps each key to what getItem on that backend
\* gives for it at that moment; the other backend contributes nothing.
C21_ExportMatchesStore ==
  [][ \A t \in Callers :
        ( /\ task[t].op = "exportData"
          /\ task[t].pc # "done"
          /\ task'[t].pc = "done"
          /\ task'[t].status = "resolved" )
        => IF isIndexedDBAvailable
           THEN /\ DOMAIN task'[t].result.m = DOMAIN idb
                /\ \A k \in DOMAIN idb :
                     task'[t].result.m[k]
                       = getItemIndexedDB_onsuccess(IDB_get(idb, k))
           ELSE /\ DOMAIN task'[t].result.m = DOMAIN ls
                /\ \A k \in DOMAIN ls :
                     /\ getItemLocalStorage(ls, k).status = "resolved"
                     /\ task'[t].result.m[k] = getItemLocalStorage(ls, k).result
    ]_vars

\* exportData has resolved on IndexedDB with an entry in its mapping while
\* localStorage holds a key the mapping does not have
C21_Witness ==
  /\ isIndexedDBAvailable
  /\ \E t \in Callers :
       /\ task[t].op = "exportData"
       /\ task[t].pc = "done"
       /\ task[t].status = "resolved"
       /\ DOMAIN task[t].result.m = {OtherKey}
       /\ DOMAIN idb = {OtherKey}
       /\ LegacyKey \in DOMAIN ls

\* C23: a getItem that resolves with null found no entry under the key, and a
\* getItem whose caller's last awaited write of the key was a setItem that no
\* later write has touched finds the entry.
C23_NullOnlyWhenAbsent ==
  \A t \in Callers :
    ( /\ task[t].op = "getItem"
      /\ task[t].pc = "done"
      /\ task[t].status = "resolved" )
    => /\ (task[t].result = JNull) => (task[t].saw = "absent")
       /\ (task[t].expect \in JSONValues) => (task[t].saw = "present")

\* C24: the type a getStorageInfo has reported is the selection init() has
\* settled on: once init() has resolved, 'IndexedDB' goes with IndexedDB
\* selected and 'localStorage' with localStorage selected, also for a
\* getStorageInfo that was called while init() was pending.
C24_InfoTypeIsSelection ==
  \A t \in Callers :
    (task[t].op = "getStorageInfo" /\ initPromise = "resolved")
    => (task[t].result.type = "IndexedDB" <=> isIndexedDBAvailable)

\* C25: an enhancedStorage.getItem that follows the caller's awaited
\* enhancedStorage.setItem(k, s) of the same key, no other write of the key in
\* between, returns a string that parses to the value s parses to; and an
\* enhancedStorage.getItem returns null only when it found nothing under the
\* key.
C25_WrapperRoundTrip ==
  \A t \in Callers :
    ( /\ task[t].op = "enhancedStorage.getItem"
      /\ task[t].status = "resolved" )
    => /\ (task[t].expect \in JSONValues)
          => /\ task[t].result.t = "str"
             /\ JSONParse(task[t].result.s) = task[t].expect
       /\ (task[t].result = JNull) => (task[t].saw = "absent")

\* C22: when the getItem of loadAllCollections has settled, loadAllCollections
\* can return, and when it does allCollections is the stored mapping if
\* getItem resolved with one, and the empty mapping if it resolved with null
\* or was rejected; the application's init() then shows the main screen.
C22_LoadTreatsAbsentAsEmpty ==
  /\ []((load.pc = "awaitGet" /\ load.status # "none")
        => ENABLED loadAllCollections_return)
  /\ [][ (load.pc = "awaitGet" /\ load'.pc = "done")
         => /\ allCollections' =
                 IF load.status = "resolved" /\ load.result.stored
                 THEN load.result.value ELSE EmptyMapping
            /\ visibleView' = "mainScreen"
       ]_vars

\* getItem was rejected while the store holds a collection, and the
\* application has started with no collection
C22_Witness ==
  /\ load.pc = "done"
  /\ load.status = "rejected"
  /\ persisted.stored
  /\ "a" \in DOMAIN persisted.value
  /\ allCollections = EmptyMapping
  /\ visibleView = "mainScreen"

\* C26: editingIndex is -1 or the index of an item that exists in
\* currentCollectionData, whatever the user has done.
C26_EditingIndexNamesAnItem ==
  editingIndex = -1 \/ At(currentCollectionData, editingIndex) # Hole

\* C27: one click on the confirm button carries out at most one action, the
\* one its dialog was opened for.
C27_OneActionPerConfirm ==
  Len(carried) <= 1

\* C28: when a saveAllCollections returns to the operation that awaited it
\* and no other save is in flight, the value persisted under
\* 'allEquipmentCollections' is allCollections.
C28_PersistedIsInMemory ==
  [][ (pendingSaves # <<>> /\ pendingSaves' = <<>>)
      => persisted' = Stored(allCollections') ]_vars

\* C29: a click that settles the name dialog (confirm with any text, or
\* cancel) leaves every existing collection with its items, adds nothing but
\* empty collections under non-empty names that did not exist, and when it
\* adds nothing it changes neither allCollections nor the store, and starts
\* no write.
C29_CreateOnlyNewNames ==
  [][ (nameCollectionModal = "flex" /\ nameListeners > 0 /\ nameListeners' = 0)
      => /\ \A n \in DOMAIN allCollections :
              /\ n \in DOMAIN allCollections'
              /\ allCollections'[n] = allCollections[n]
         /\ \A n \in DOMAIN allCollections' \ DOMAIN allCollections :
              /\ n # ""
              /\ ~HasCollection(allCollections, n)
              /\ allCollections'[n] = <<>>
         /\ DOMAIN allCollections' = DOMAIN allCollections
              => /\ persisted' = persisted
                 /\ pendingSaves' = pendingSaves
     ]_vars

\* the name of a collection that holds an item was entered: the dialog is
\* shown again, the collection keeps its item and no write was started
C29_Witness ==
  /\ nameCollectionModal = "flex"
  /\ nameListeners = 0
  /\ "a" \in DOMAIN allCollections
  /\ allCollections["a"] # <<>>
  /\ pendingSaves = <<>>

\* the rules of the form, on the item made from its inputs
MeetsFormRules(item) ==
  /\ \A f \in {"type", "brand", "building", "floor", "sector"} : item[f] # <<>>
  /\ \A f \in {"patSiads", "patEbserh"} : OnlyDigits(item[f])
  /\ \E f \in {"serialNumber", "patSiads", "patEbserh", "patFub"} :
       item[f] # <<>>

\* C30: a submit of a form that does not meet the rules (a required field
\* empty, a PAT. SIADS or PAT. EBSERH that is not all digits, no inventory
\* field filled) changes neither currentCollectionData, allCollections,
\* editingIndex nor the store, and starts no write.
C30_InvalidSubmitChangesNothing ==
  [][ \A form \in Forms :
        (handleFormSubmit(form) /\ ~MeetsFormRules(NewItem(form)))
        => UNCHANGED <<currentCollectionData, allCollections, editingIndex,
                       persisted, pendingSaves>>
    ]_vars

\* a submit has put an item that meets the rules into the open collection
\* and its write is in flight
C30_Witness ==
  /\ pendingSaves # <<>>
  /\ Head(pendingSaves).op = "handleFormSubmit"
  /\ currentCollectionData # <<>>
  /\ currentCollectionData[1] = NewItem(OtherForm)
  /\ MeetsFormRules(currentCollectionData[1])

\* C31: a click on the confirm button that carries out deleteCollection(name)
\* removes exactly that collection from allCollections and, with the storage
\* manager ready, leaves the store holding the result; a click on the cancel
\* button changes neither allCollections nor the store.
C31_DeleteExactlyTheCollection ==
  [][ /\ (carried' # <<>> /\ carried'[Len(carried')].op = "deleteCollection")
         => /\ allCollections' =
                 DeleteCollection(allCollections, carried'[Len(carried')].name)
            /\ storageReady => persisted' = Stored(allCollections')
      /\ (confirmModal = "flex" /\ confirmListeners # <<>>
          /\ confirmListeners' = <<>> /\ carried' = <<>>)
         => /\ allCollections' = allCollections
            /\ persisted' = persisted
    ]_vars

\* C32: once the promise the activate handler gave to waitUntil has settled,
\* no cache with a name other than CACHE_NAME exists; and no step of the
\* activation deletes the cache named CACHE_NAME.
C32_ActivationRemovesOldCaches ==
  /\ [](activation.promise \in {"fulfilled", "rejected"}
        => DOMAIN caches \subseteq {CACHE_NAME})
  /\ [][ (activation.promise = "pending" /\ CACHE_NAME \in DOMAIN caches)
         => CACHE_NAME \in DOMAIN caches' ]_vars

Degraded(request) ==
  IF SameOrigin(request.url)
  THEN IF request.mode = "navigate"
       THEN {r \in CacheStorage_match(caches, IndexHtml) : r.status = 200}
       ELSE {Response(404, "default", "")}
  ELSE {Response(200, "default", "")}

\* C34: in the offline worker, the step in which the fetch of a request that
\* missed the cache fails answers a same-origin navigation with a cached
\* response for './index.html', any other same-origin request with an empty
\* 404 response and a cross-origin request with an empty 200 response, and
\* leaves the caches as they are.
C34_OfflineDegradation ==
  [][ \A i \in DOMAIN fetchEvents :
        (/\ worker = "part_001"
         /\ fetchEvents[i].pc = "fetch"
         /\ fetchEvents'[i].pc = "done"
         /\ fetchEvents'[i].fetched = NetworkError)
        => /\ ~fetchEvents'[i].hit
           /\ fetchEvents'[i].respondedWith \in Degraded(fetchEvents[i].request)
           /\ caches' = caches
    ]_vars

\* a navigation to a page that is not cached was answered offline with the
\* cached './index.html'
C34_Witness ==
  /\ worker = "part_001"
  /\ \E i \in DOMAIN fetchEvents :
       /\ fetchEvents[i].pc = "done"
       /\ fetchEvents[i].request = NewRequest("./coleta", "navigate")
       /\ fetchEvents[i].fetched = NetworkError
       /\ fetchEvents[i].respondedWith = Installed(IndexHtml)

====
